---- MODULE Spec2Model ----
(***************************************************************************)
(* Model of the tinygo-buffers conversion engine: the hex and decimal      *)
(* encoders that write into package-level scratch buffers and return       *)
(* views of them, and the byte-order codec that packs and unpacks          *)
(* fixed-width values into caller-owned buffers.                           *)
(*                                                                         *)
(* Representation.  A byte is a number 0..255.  An unsigned value is a     *)
(* sequence of 16-bit limbs, most-significant limb first: one limb for a   *)
(* uint8 or uint16, two for a uint32 and four for a uint64, so that every  *)
(* 64-bit value is exact (the model checker's integers are narrower than   *)
(* 64 bits).  A signed value of width W is a record [neg, mag]: its sign and  *)
(* its magnitude as an unsigned value of width W, i.e. the mathematical    *)
(* integer; conversions to and from the two's-complement bit pattern are   *)
(* computed.  Go slices and arrays are 0-based: position p of a buffer is  *)
(* element p + 1 of the sequence that models it.  A view is a record       *)
(* [buf, lo, hi]: the half-open range lo..hi-1 of the named buffer, read   *)
(* from the current contents of that buffer.  `held` is a view the caller   *)
(* has kept from an earlier call, with the bytes it read when it was       *)
(* returned.  `procs` are two callers that run one codec call each, one    *)
(* byte access at a time, on buffers of their own.                         *)
(***************************************************************************)
EXTENDS Integers, Sequences, FiniteSets, TLC

VARIABLES UintToHexBuffer, UintToDecimalBuffer, IntToDecimalBuffer, Float64ToDecimalBuffer,
          buffer, enc, last, held, procs

vars == <<UintToHexBuffer, UintToDecimalBuffer, IntToDecimalBuffer, Float64ToDecimalBuffer,
          buffer, enc, last, held, procs>>

(***************************************************************************)
(* Limb arithmetic for 32- and 64-bit values                               *)
(***************************************************************************)
LimbBase == 2 ^ 16

Pow2(n) == 2 ^ n

\* n zero limbs
RECURSIVE ZeroLimbs(_)
ZeroLimbs(n) == IF n = 0 THEN << >> ELSE <<0>> \o ZeroLimbs(n - 1)

IsZero(x) == \A k \in 1..Len(x) : x[k] = 0

\* bit b (0 = least significant) of the limb sequence x
BitOf(x, b) ==
  IF b < 0 \/ b >= 16 * Len(x) THEN 0
  ELSE (x[Len(x) - (b \div 16)] \div Pow2(b % 16)) % 2

\* (x >> shift) & (2^n - 1) for a limb sequence x, as a number (n <= 16)
RECURSIVE ShiftRightMask(_, _, _)
ShiftRightMask(x, shift, n) ==
  IF n = 0 THEN 0
  ELSE BitOf(x, shift) + 2 * ShiftRightMask(x, shift + 1, n - 1)

\* quotient and remainder of the limb sequence x by the small divisor d:
\* schoolbook long division, most-significant limb first
RECURSIVE DivModLimbs(_, _, _)
DivModLimbs(x, d, carry) ==
  IF x = << >> THEN [q |-> << >>, r |-> carry]
  ELSE LET cur  == carry * LimbBase + Head(x)
           rest == DivModLimbs(Tail(x), d, cur % d)
       IN  [q |-> <<cur \div d>> \o rest.q, r |-> rest.r]

\* x + 1 modulo 2^(16 * Len(x))
RECURSIVE IncLimbs(_)
IncLimbs(x) ==
  IF x = << >> THEN << >>
  ELSE LET n == Len(x)
       IN  IF x[n] = LimbBase - 1
           THEN IncLimbs(SubSeq(x, 1, n - 1)) \o <<0>>
           ELSE [x EXCEPT ![n] = x[n] + 1]

\* bitwise complement of every limb
NotLimbs(x) == [k \in 1..Len(x) |-> (LimbBase - 1) - x[k]]

\* two's-complement negation modulo 2^(16 * Len(x))
NegLimbs(x) == IncLimbs(NotLimbs(x))

\* the top bit of the limb sequence x is set
TopBit(x) == x[1] >= LimbBase \div 2

(***************************************************************************)
(* Symbol tables                                                           *)
(***************************************************************************)
ASCIIHexDigits == <<48, 49, 50, 51, 52, 53, 54, 55, 56, 57, 65, 66, 67, 68, 69, 70>>

ASCIIDecimalDigits == <<48, 49, 50, 51, 52, 53, 54, 55, 56, 57>>

MinusSign == 45

\* length of the scratch buffers
UintToHexBufferLen == 16

UintToDecimalBufferLen == 20

IntToDecimalBufferLen == 20

Float64ToDecimalBufferLen == 8

RECURSIVE ZeroBytes(_)
ZeroBytes(n) == IF n = 0 THEN << >> ELSE Append(ZeroBytes(n - 1), 0)

(***************************************************************************)
(* Error codes                                                             *)
(***************************************************************************)
ErrorCodeNil == 0

ErrorCodeBuffersStartNumber == 4000

ErrorCodeBuffersInvalidBufferSize == ErrorCodeBuffersStartNumber

ErrorCodeBuffersTooMuchPrecisionDigitsForFloat64 == ErrorCodeBuffersStartNumber + 1

(***************************************************************************)
(* Conversions between the integer types                                   *)
(***************************************************************************)
\* uint64(value) for a narrower unsigned value: zero extension
Uint64Of(value) == ZeroLimbs(4 - Len(value)) \o value

\* uintW(value) for a signed value of the same width: its two's-complement
\* bit pattern
UintOfInt(value) == IF value.neg THEN NegLimbs(value.mag) ELSE value.mag

\* a variant that keeps the magnitude and drops the sign
IntOfUint_Unsigned(u) == [neg |-> FALSE, mag |-> u]

\* intW(u) for an unsigned value of the same width: the signed value whose
\* two's-complement bit pattern is u
IntOfUint(u) ==
  IF TopBit(u) THEN [neg |-> TRUE, mag |-> NegLimbs(u)]
  ELSE [neg |-> FALSE, mag |-> u]

\* -v in a signed type of the width of v.mag: the result wraps, so the
\* most negative value is its own negation
NegInt(v) ==
  IF IsZero(v.mag) THEN v
  ELSE IF v.neg THEN (IF TopBit(v.mag) THEN v ELSE [neg |-> FALSE, mag |-> v.mag])
  ELSE [neg |-> TRUE, mag |-> v.mag]

(***************************************************************************)
(* Views                                                                   *)
(***************************************************************************)
NoView == [buf |-> "none", lo |-> 0, hi |-> 0]

BufferNamed(name) ==
  CASE name = "hex" -> UintToHexBuffer
    [] name = "dec" -> UintToDecimalBuffer
    [] name = "int" -> IntToDecimalBuffer
    [] name = "float" -> Float64ToDecimalBuffer
    [] OTHER -> << >>

\* the bytes a view reads now
ViewBytes(view) == SubSeq(BufferNamed(view.buf), view.lo + 1, view.hi)

ViewLen(view) == view.hi - view.lo

(***************************************************************************)
(* Hex encoder                                                             *)
(***************************************************************************)
\* a variant that takes the least-significant nibble first
UintToHexIndex_LowNibbleFirst(value, size, pos) ==
  IF pos < 0 \/ pos > (size \div 4) - 1 THEN -1
  ELSE ShiftRightMask(value, pos * 4, 4)

UintToHexIndex(value, size, pos) ==
  IF pos < 0 \/ pos > (size \div 4) - 1 THEN -1
  ELSE LET shift == ((size \div 4) - 1 - pos) * 4
       IN  ShiftRightMask(value, shift, 4)

\* a variant that clears the positions the encoder has no glyph for
RECURSIVE UintToHexLoop_ClearsRest(_, _, _, _)
UintToHexLoop_ClearsRest(buf, value, size, c) ==
  IF c >= Len(buf) THEN buf
  ELSE LET index == UintToHexIndex(value, size, c)
       IN  IF index >= 0
           THEN UintToHexLoop_ClearsRest([buf EXCEPT ![c + 1] = ASCIIHexDigits[index + 1]],
                                         value, size, c + 1)
           ELSE UintToHexLoop_ClearsRest([buf EXCEPT ![c + 1] = 0], value, size, c + 1)

\* the loop `for c := range UintToHexBuffer` of the four encoders, from
\* position c on
RECURSIVE UintToHexLoop(_, _, _, _)
UintToHexLoop(buf, value, size, c) ==
  IF c >= Len(buf) THEN buf
  ELSE LET index == UintToHexIndex(value, size, c)
       IN  IF index >= 0
           THEN UintToHexLoop([buf EXCEPT ![c + 1] = ASCIIHexDigits[index + 1]], value, size, c + 1)
           ELSE UintToHexLoop(buf, value, size, c + 1)

HexView(size) == [buf |-> "hex", lo |-> 0, hi |-> size \div 4]


(***************************************************************************)
(* Calls.  `last` records the most recent call: its name, its arguments,   *)
(* what it returned (a view, a value, an error code), whether it           *)
(* panicked, and the contents of the caller's buffer before the call.      *)
(* `buffer` is the caller's buffer most recently passed to the codec and   *)
(* `enc` the most recent encode call into it.                              *)
(***************************************************************************)
NoValue == << >>

Call(op, value, width, view, ret, err, panicked, pre) ==
  [op |-> op, value |-> value, width |-> width, view |-> view, ret |-> ret,
   err |-> err, panicked |-> panicked, pre |-> pre]

NoCall == Call("none", NoValue, 0, NoView, NoValue, ErrorCodeNil, FALSE, << >>)

\* no view kept
NoHeld == [op |-> "none", value |-> NoValue, view |-> NoView, bytes |-> << >>]

Procs == {1, 2}

\* a caller that has not started its call; `overlap` tells whether another
\* caller's call was under way at some time during this caller's call
IdleProc ==
  [pc |-> "idle", op |-> "none", n |-> 0, le |-> FALSE, kind |-> "none", value |-> NoValue,
   buf |-> << >>, k |-> 0, acc |-> << >>, ret |-> NoValue, err |-> ErrorCodeNil, pre |-> << >>,
   overlap |-> FALSE]

Init ==
  /\ UintToHexBuffer = ZeroBytes(UintToHexBufferLen)
  /\ UintToDecimalBuffer = ZeroBytes(UintToDecimalBufferLen)
  /\ IntToDecimalBuffer = ZeroBytes(IntToDecimalBufferLen)
  /\ Float64ToDecimalBuffer = ZeroBytes(Float64ToDecimalBufferLen)
  /\ buffer = << >>
  /\ enc = NoCall
  /\ last = NoCall
  /\ held = NoHeld
  /\ procs = [p \in Procs |-> IdleProc]

(***************************************************************************)
(* Inputs of the hex encoders                                              *)
(***************************************************************************)
Uint8Values == {<<0>>, <<10>>, <<15>>, <<165>>, <<255>>}

Uint16Values == {<<0>>, <<255>>, <<4660>>, <<32768>>, <<48879>>, <<65535>>}

Uint32Values ==
  {<<0, 0>>, <<0, 256>>, <<1, 0>>, <<32767, 65535>>, <<32768, 0>>,
   <<57005, 48879>>, <<65535, 65535>>}

Uint64Values ==
  {<<0, 0, 0, 0>>, <<0, 0, 0, 1>>, <<0, 0, 57005, 48879>>,
   <<291, 17767, 35243, 52719>>, <<32767, 65535, 65535, 65535>>,
   <<32768, 0, 0, 0>>, <<65535, 65535, 65535, 65535>>}

HexFrame ==
  UNCHANGED <<UintToDecimalBuffer, IntToDecimalBuffer, Float64ToDecimalBuffer, buffer, enc, held, procs>>

Uint8ToHex(value) ==
  /\ UintToHexBuffer' = UintToHexLoop(UintToHexBuffer, Uint64Of(value), 8, 0)
  /\ last' = Call("Uint8ToHex", value, 8, HexView(8), NoValue, ErrorCodeNil, FALSE, << >>)
  /\ HexFrame

Uint16ToHex(value) ==
  /\ UintToHexBuffer' = UintToHexLoop(UintToHexBuffer, Uint64Of(value), 16, 0)
  /\ last' = Call("Uint16ToHex", value, 16, HexView(16), NoValue, ErrorCodeNil, FALSE, << >>)
  /\ HexFrame

\* a variant that leaves the shared buffer alone
Uint32ToHex_NoWrite(value) ==
  /\ UintToHexBuffer' = UintToHexBuffer
  /\ last' = Call("Uint32ToHex", value, 32, HexView(32), NoValue, ErrorCodeNil, FALSE, << >>)
  /\ HexFrame

Uint32ToHex(value) ==
  /\ UintToHexBuffer' = UintToHexLoop(UintToHexBuffer, Uint64Of(value), 32, 0)
  /\ last' = Call("Uint32ToHex", value, 32, HexView(32), NoValue, ErrorCodeNil, FALSE, << >>)
  /\ HexFrame

Uint64ToHex(value) ==
  /\ UintToHexBuffer' = UintToHexLoop(UintToHexBuffer, value, 64, 0)
  /\ last' = Call("Uint64ToHex", value, 64, HexView(64), NoValue, ErrorCodeNil, FALSE, << >>)
  /\ HexFrame

CallUint8ToHex == \E value \in Uint8Values : Uint8ToHex(value)

CallUint16ToHex == \E value \in Uint16Values : Uint16ToHex(value)

CallUint32ToHex == \E value \in Uint32Values : Uint32ToHex(value)

CallUint64ToHex == \E value \in Uint64Values : Uint64ToHex(value)

NextHex ==
  \/ CallUint8ToHex
  \/ CallUint16ToHex
  \/ CallUint32ToHex
  \/ CallUint64ToHex

SpecHex == Init /\ [][NextHex]_vars

(***************************************************************************)
(* Reading text back as a number                                           *)
(***************************************************************************)
HexOps == {"Uint8ToHex", "Uint16ToHex", "Uint32ToHex", "Uint64ToHex"}

\* the value of an uppercase hex glyph, or -1
HexGlyphValue(b) ==
  IF b >= 48 /\ b <= 57 THEN b - 48
  ELSE IF b >= 65 /\ b <= 70 THEN b - 55
  ELSE -1

\* the number a short run of hex glyphs (at most four) spells
RECURSIVE HexNumber(_)
HexNumber(text) ==
  IF text = << >> THEN 0
  ELSE 16 * HexNumber(SubSeq(text, 1, Len(text) - 1)) + HexGlyphValue(text[Len(text)])

\* the limbs that 4 * n hex glyphs spell, most-significant first
HexLimbs(text) == [k \in 1..(Len(text) \div 4) |-> HexNumber(SubSeq(text, 4 * k - 3, 4 * k))]

\* the value that the glyphs of a hex view spell: a run shorter than four
\* glyphs is one limb
HexDecode(text) == IF Len(text) < 4 THEN <<HexNumber(text)>> ELSE HexLimbs(text)

IsHexText(text) == \A k \in 1..Len(text) : HexGlyphValue(text[k]) >= 0

\* C1: a hex encoder of width W returns exactly W/4 uppercase hex glyphs,
\* most-significant nibble first and without suppressing leading zeros, so
\* that reading the glyphs back in base 16 yields the value (zero gives W/4
\* '0' glyphs, Uint32ToHex(0xDEADBEEF) gives "DEADBEEF").
C1_HexFixedWidthRoundTrip ==
  last.op \in HexOps =>
    LET text == ViewBytes(last.view)
    IN  /\ last.view.lo = 0
        /\ Len(text) = last.width \div 4
        /\ IsHexText(text)
        /\ HexDecode(text) = last.value
        /\ (IsZero(last.value) => \A k \in 1..Len(text) : text[k] = 48)
        /\ (last.op = "Uint32ToHex" /\ last.value = <<57005, 48879>>
              => text = <<68, 69, 65, 68, 66, 69, 69, 70>>)

C1_Witness ==
  /\ last.op = "Uint32ToHex"
  /\ last.value = <<57005, 48879>>
  /\ ViewBytes(last.view) = <<68, 69, 65, 68, 66, 69, 69, 70>>
  /\ UintToHexBuffer[9] = 48


(***************************************************************************)
(* Decimal encoder                                                         *)
(***************************************************************************)
\* the loop `for v > 0 && i > 0` of UintToDecimal
RECURSIVE UintToDecimalLoop(_, _, _)
UintToDecimalLoop(buf, i, v) ==
  IF ~IsZero(v) /\ i > 0
  THEN LET dm == DivModLimbs(v, 10, 0)
       IN  UintToDecimalLoop([buf EXCEPT ![i] = ASCIIDecimalDigits[dm.r + 1]], i - 1, dm.q)
  ELSE [buf |-> buf, i |-> i, v |-> v]

\* a variant without the special case for zero
UintToDecimalRun_NoZeroCase(buf, value) == UintToDecimalLoop(buf, Len(buf), value)

\* UintToDecimal on the buffer contents buf: the contents afterwards and
\* the cursor i at which the returned view UintToDecimalBuffer[i:] starts
UintToDecimalRun(buf, value) ==
  LET i == Len(buf)
  IN  IF IsZero(value)
      THEN UintToDecimalLoop([buf EXCEPT ![i] = ASCIIDecimalDigits[1]], i - 1, value)
      ELSE UintToDecimalLoop(buf, i, value)

\* copy(dst[at:], src) of Go for a source that may alias dst: the source
\* bytes are those read before any byte is written, and the count is the
\* shorter of the two lengths
CopyBytes(dst, at, src) ==
  LET n == IF Len(dst) - at < Len(src) THEN Len(dst) - at ELSE Len(src)
  IN  [k \in 1..Len(dst) |-> IF k > at /\ k <= at + n THEN src[k - at] ELSE dst[k]]

\* a variant whose loop starts at 1
FillZeros_FromOne(buf, pad) ==
  [k \in 1..Len(buf) |-> IF k > 1 /\ k <= pad THEN ASCIIDecimalDigits[1] ELSE buf[k]]

\* the loop `for i := 0; i < pad; i++` of UintToDecimalFixed
FillZeros(buf, pad) ==
  [k \in 1..Len(buf) |-> IF k <= pad THEN ASCIIDecimalDigits[1] ELSE buf[k]]

\* UintToDecimalFixed on the buffer contents buf0: the contents afterwards,
\* the range lo..hi-1 of the returned view, and whether a slice expression
\* was out of range
\* a variant without the loop that writes the '0' padding
UintToDecimalFixedRun_NoFill(buf0, value, width) ==
  LET run  == UintToDecimalRun(buf0, value)
      size == Len(buf0)
      text == SubSeq(run.buf, run.i + 1, size)
      pad  == width - Len(text)
  IN  IF pad <= 0
      THEN [buf |-> run.buf, lo |-> run.i, hi |-> size, panicked |-> FALSE]
      ELSE IF pad > size
      THEN [buf |-> run.buf, lo |-> 0, hi |-> 0, panicked |-> TRUE]
      ELSE LET filled == CopyBytes(run.buf, pad, text)
           IN  IF width > size
               THEN [buf |-> filled, lo |-> 0, hi |-> 0, panicked |-> TRUE]
               ELSE [buf |-> filled, lo |-> 0, hi |-> width, panicked |-> FALSE]

UintToDecimalFixedRun(buf0, value, width) ==
  LET run  == UintToDecimalRun(buf0, value)
      size == Len(buf0)
      text == SubSeq(run.buf, run.i + 1, size)
      pad  == width - Len(text)
  IN  IF pad <= 0
      THEN [buf |-> run.buf, lo |-> run.i, hi |-> size, panicked |-> FALSE]
      ELSE IF pad > size
      THEN [buf |-> run.buf, lo |-> 0, hi |-> 0, panicked |-> TRUE]
      ELSE LET filled == FillZeros(CopyBytes(run.buf, pad, text), pad)
           IN  IF width > size
               THEN [buf |-> filled, lo |-> 0, hi |-> 0, panicked |-> TRUE]
               ELSE [buf |-> filled, lo |-> 0, hi |-> width, panicked |-> FALSE]

\* the loop `for v > 0 && i > 0` of IntToDecimal, on a signed v
RECURSIVE IntToDecimalLoop(_, _, _)
IntToDecimalLoop(buf, i, v) ==
  IF ~v.neg /\ ~IsZero(v.mag) /\ i > 0
  THEN LET dm == DivModLimbs(v.mag, 10, 0)
       IN  IntToDecimalLoop([buf EXCEPT ![i] = ASCIIDecimalDigits[dm.r + 1]], i - 1,
                            [neg |-> FALSE, mag |-> dm.q])
  ELSE [buf |-> buf, i |-> i, v |-> v]

\* a variant that never writes the sign
IntToDecimalRun_NoSign(buf, value) ==
  LET i0 == Len(buf)
      v  == IF value.neg THEN NegInt(value) ELSE value
  IN  IF IsZero(v.mag)
      THEN IntToDecimalLoop([buf EXCEPT ![i0] = ASCIIDecimalDigits[1]], i0 - 1, v)
      ELSE IntToDecimalLoop(buf, i0, v)

\* IntToDecimal on the buffer contents buf
IntToDecimalRun(buf, value) ==
  LET i0       == Len(buf)
      negative == value.neg /\ ~IsZero(value.mag)
      v        == IF negative THEN NegInt(value) ELSE value
      run      == IF IsZero(v.mag)
                  THEN IntToDecimalLoop([buf EXCEPT ![i0] = ASCIIDecimalDigits[1]], i0 - 1, v)
                  ELSE IntToDecimalLoop(buf, i0, v)
  IN  IF negative /\ run.i > 0
      THEN [buf |-> [run.buf EXCEPT ![run.i] = MinusSign], i |-> run.i - 1, v |-> run.v]
      ELSE run

MaxWidth == 21

\* widths below, at and above the lengths of the values' texts
FixedWidths == {-1, 0, 1, 3, 4, 11, UintToDecimalBufferLen, MaxWidth}

\* 0, 255, 10^9, 2^63, 2^64 - 1: texts of 1, 3, 10, 19 and 20 digits
DecimalValues ==
  {<<0, 0, 0, 0>>, <<0, 0, 0, 255>>, <<0, 0, 15258, 51712>>,
   <<32768, 0, 0, 0>>, <<65535, 65535, 65535, 65535>>}

MinInt64 == [neg |-> TRUE, mag |-> <<32768, 0, 0, 0>>]

\* 0, +-1, +-9, +-10, +-255, +-10^9, +-(2^63 - 1), -2^63
Int64Values ==
  {[neg |-> FALSE, mag |-> <<0, 0, 0, 0>>],
   [neg |-> FALSE, mag |-> <<0, 0, 0, 1>>], [neg |-> TRUE, mag |-> <<0, 0, 0, 1>>],
   [neg |-> FALSE, mag |-> <<0, 0, 0, 9>>], [neg |-> TRUE, mag |-> <<0, 0, 0, 9>>],
   [neg |-> FALSE, mag |-> <<0, 0, 0, 10>>], [neg |-> TRUE, mag |-> <<0, 0, 0, 10>>],
   [neg |-> FALSE, mag |-> <<0, 0, 0, 255>>], [neg |-> TRUE, mag |-> <<0, 0, 0, 255>>],
   [neg |-> FALSE, mag |-> <<0, 0, 15258, 51712>>], [neg |-> TRUE, mag |-> <<0, 0, 15258, 51712>>],
   [neg |-> FALSE, mag |-> <<32767, 65535, 65535, 65535>>],
   [neg |-> TRUE, mag |-> <<32767, 65535, 65535, 65535>>],
   MinInt64}

Running == ~last.panicked

UintToDecimal(value) ==
  LET run == UintToDecimalRun(UintToDecimalBuffer, value)
  IN  /\ Running
      /\ UintToDecimalBuffer' = run.buf
      /\ last' = Call("UintToDecimal", value, 0,
                      [buf |-> "dec", lo |-> run.i, hi |-> UintToDecimalBufferLen],
                      NoValue, ErrorCodeNil, FALSE, << >>)
      /\ UNCHANGED <<UintToHexBuffer, IntToDecimalBuffer, Float64ToDecimalBuffer, buffer, enc, held, procs>>

UintToDecimalFixed(value, width) ==
  LET run == UintToDecimalFixedRun(UintToDecimalBuffer, value, width)
  IN  /\ Running
      /\ UintToDecimalBuffer' = run.buf
      /\ last' = Call("UintToDecimalFixed", value, width,
                      IF run.panicked THEN NoView ELSE [buf |-> "dec", lo |-> run.lo, hi |-> run.hi],
                      NoValue, ErrorCodeNil, run.panicked, << >>)
      /\ UNCHANGED <<UintToHexBuffer, IntToDecimalBuffer, Float64ToDecimalBuffer, buffer, enc, held, procs>>

\* a variant that writes into the buffer of UintToDecimal
IntToDecimal_SharedBuffer(value) ==
  LET run == IntToDecimalRun(UintToDecimalBuffer, value)
  IN  /\ Running
      /\ UintToDecimalBuffer' = run.buf
      /\ last' = Call("IntToDecimal", value, 0,
                      [buf |-> "dec", lo |-> run.i, hi |-> UintToDecimalBufferLen],
                      NoValue, ErrorCodeNil, FALSE, << >>)
      /\ UNCHANGED <<UintToHexBuffer, IntToDecimalBuffer, Float64ToDecimalBuffer, buffer, enc, held, procs>>

IntToDecimal(value) ==
  LET run == IntToDecimalRun(IntToDecimalBuffer, value)
  IN  /\ Running
      /\ IntToDecimalBuffer' = run.buf
      /\ last' = Call("IntToDecimal", value, 0,
                      [buf |-> "int", lo |-> run.i, hi |-> IntToDecimalBufferLen],
                      NoValue, ErrorCodeNil, FALSE, << >>)
      /\ UNCHANGED <<UintToHexBuffer, UintToDecimalBuffer, Float64ToDecimalBuffer, buffer, enc, held, procs>>

CallUintToDecimal == \E value \in DecimalValues : UintToDecimal(value)

CallUintToDecimalFixed ==
  \E value \in DecimalValues : \E width \in FixedWidths : UintToDecimalFixed(value, width)

CallIntToDecimal == \E value \in Int64Values : IntToDecimal(value)

NextDec ==
  \/ CallUintToDecimal
  \/ CallUintToDecimalFixed

SpecDec == Init /\ [][NextDec]_vars

NextInt == CallIntToDecimal

SpecInt == Init /\ [][NextInt]_vars


(***************************************************************************)
(* Reading decimal text back as a number                                   *)
(***************************************************************************)
\* x * m + a for a limb sequence x and small numbers m and a: the limbs of
\* the result modulo 2^(16 * Len(x)) and the carry out of the top limb
RECURSIVE MulAddLimbs(_, _, _)
MulAddLimbs(x, m, a) ==
  IF x = << >> THEN [limbs |-> << >>, carry |-> a]
  ELSE LET n    == Len(x)
           cur  == x[n] * m + a
           rest == MulAddLimbs(SubSeq(x, 1, n - 1), m, cur \div LimbBase)
       IN  [limbs |-> rest.limbs \o <<cur % LimbBase>>, carry |-> rest.carry]

IsDecimalText(text) == \A k \in 1..Len(text) : text[k] >= 48 /\ text[k] <= 57

\* the 64-bit value that a run of decimal glyphs spells, most-significant
\* digit first, and whether it overflowed 64 bits
RECURSIVE DecimalNumber(_)
DecimalNumber(text) ==
  IF text = << >> THEN [limbs |-> ZeroLimbs(4), overflow |-> FALSE]
  ELSE LET n     == Len(text)
           front == DecimalNumber(SubSeq(text, 1, n - 1))
           next  == MulAddLimbs(front.limbs, 10, text[n] - 48)
       IN  [limbs |-> next.limbs, overflow |-> front.overflow \/ next.carry # 0]

\* the bytes of the view UintToDecimal(v) returns
DecimalText(v) ==
  LET run == UintToDecimalRun(ZeroBytes(UintToDecimalBufferLen), v)
  IN  SubSeq(run.buf, run.i + 1, UintToDecimalBufferLen)

Zeros(n) == [k \in 1..n |-> 48]

\* C2: UintToDecimal(v) returns the minimal decimal text of v: exactly "0"
\* for zero, otherwise decimal glyphs without a leading '0', and reading the
\* text in base 10 yields v.
C2_UintToDecimalMinimal ==
  last.op = "UintToDecimal" =>
    LET text == ViewBytes(last.view)
    IN  /\ Len(text) >= 1
        /\ IsDecimalText(text)
        /\ (IsZero(last.value) => text = <<48>>)
        /\ (~IsZero(last.value) => text[1] # 48)
        /\ ~DecimalNumber(text).overflow
        /\ DecimalNumber(text).limbs = last.value

C2_Witness ==
  /\ last.op = "UintToDecimal"
  /\ last.value = <<65535, 65535, 65535, 65535>>
  /\ ViewBytes(last.view) = <<49, 56, 52, 52, 54, 55, 52, 52, 48, 55, 51, 55, 48, 57, 53, 53, 49, 54, 49, 53>>

\* C3: for a negative v above the most negative value, IntToDecimal(v)
\* returns '-' followed by the bytes of UintToDecimal(|v|); for v >= 0 it
\* returns the bytes of UintToDecimal(v) without a sign.
C3_IntToDecimalSign ==
  (last.op = "IntToDecimal" /\ last.value # MinInt64) =>
    LET text == ViewBytes(last.view)
    IN  IF last.value.neg
        THEN text = <<MinusSign>> \o DecimalText(last.value.mag)
        ELSE text = DecimalText(last.value.mag)

C3_Witness ==
  /\ last.op = "IntToDecimal"
  /\ last.value = [neg |-> TRUE, mag |-> <<32767, 65535, 65535, 65535>>]
  /\ last.view.lo = 0
  /\ ViewBytes(last.view)[1] = MinusSign

\* C4: for the most negative 64-bit value, IntToDecimal returns
\* "-9223372036854775808".
C4_IntToDecimalMostNegative ==
  (last.op = "IntToDecimal" /\ last.value = MinInt64) =>
    ViewBytes(last.view) =
      <<45, 57, 50, 50, 51, 51, 55, 50, 48, 51, 54, 56, 53, 52, 55, 55, 53, 56, 48, 56>>

\* C5: for a width w of at most 20, UintToDecimalFixed(v, w) returns the
\* text of UintToDecimal(v) left-padded with '0' to exactly w bytes when the
\* text is shorter than w, and the text itself, never truncated, otherwise.
C5_UintToDecimalFixedPadding ==
  (last.op = "UintToDecimalFixed" /\ last.width <= UintToDecimalBufferLen) =>
    LET text    == ViewBytes(last.view)
        natural == DecimalText(last.value)
    IN  /\ ~last.panicked
        /\ IF Len(natural) < last.width
           THEN /\ Len(text) = last.width
                /\ text = Zeros(last.width - Len(natural)) \o natural
           ELSE text = natural

\* a padded call whose source and destination ranges overlap: ten digits
\* moved from positions 10..19 to positions 1..10
C5_Witness ==
  /\ last.op = "UintToDecimalFixed"
  /\ last.value = <<0, 0, 15258, 51712>>
  /\ last.width = 11
  /\ ViewBytes(last.view) = <<48, 49, 48, 48, 48, 48, 48, 48, 48, 48, 48>>


(***************************************************************************)
(* Byte-order codec                                                        *)
(***************************************************************************)
InvalidBufferSize == ErrorCodeBuffersInvalidBufferSize

\* x | y for two numbers below 2^n
RECURSIVE BitOr(_, _, _)
BitOr(x, y, n) ==
  IF n = 0 THEN 0
  ELSE (IF x % 2 = 1 \/ y % 2 = 1 THEN 1 ELSE 0) + 2 * BitOr(x \div 2, y \div 2, n - 1)

\* x | y for two limb sequences of the same length
OrLimbs(x, y) == [k \in 1..Len(x) |-> BitOr(x[k], y[k], 16)]

\* uintW(b) << shift for a byte b, as n limbs (shift a multiple of 8, below
\* 16 * n)
ShlByte(b, shift, n) ==
  [k \in 1..n |-> IF k = n - (shift \div 16) THEN b * Pow2(shift % 16) ELSE 0]

\* byte(v >> shift)
ByteOf(v, shift) == ShiftRightMask(v, shift, 8)

\* a variant that also clears the byte after the value
BigEndianPut_OneMore(buf, v, n) ==
  [k \in 1..Len(buf) |-> IF k <= n THEN ByteOf(v, 8 * (n - k))
                          ELSE IF k = n + 1 THEN 0 ELSE buf[k]]

\* binary.BigEndian.PutUint16/32/64(buf, v) for n = 2, 4, 8:
\* buf[k] = byte(v >> 8*(n-1-k)) for k = 0 .. n-1
BigEndianPut(buf, v, n) ==
  [k \in 1..Len(buf) |-> IF k <= n THEN ByteOf(v, 8 * (n - k)) ELSE buf[k]]

\* a variant that stores the most-significant byte first
LittleEndianPut_BigEndian(buf, v, n) ==
  [k \in 1..Len(buf) |-> IF k <= n THEN ByteOf(v, 8 * (n - k)) ELSE buf[k]]

\* binary.LittleEndian.PutUint16/32/64(buf, v) for n = 2, 4, 8:
\* buf[k] = byte(v >> 8*k) for k = 0 .. n-1
LittleEndianPut(buf, v, n) ==
  [k \in 1..Len(buf) |-> IF k <= n THEN ByteOf(v, 8 * (k - 1)) ELSE buf[k]]

\* math.Float32bits: sign, 8 exponent bits, 23 fraction bits (7 + 16)
Float32bits(f) == <<f.sign * 32768 + f.exp * 128 + f.frac[1], f.frac[2]>>

\* a variant that returns the canonical NaN for every NaN pattern
Float32frombits_CanonicalNaN(u) ==
  IF (u[1] % 32768) \div 128 = 255 /\ (u[1] % 128 # 0 \/ u[2] # 0)
  THEN [sign |-> 0, exp |-> 255, frac |-> <<64, 0>>]
  ELSE [sign |-> u[1] \div 32768, exp |-> (u[1] % 32768) \div 128, frac |-> <<u[1] % 128, u[2]>>]

\* math.Float32frombits
Float32frombits(u) ==
  [sign |-> u[1] \div 32768, exp |-> (u[1] % 32768) \div 128, frac |-> <<u[1] % 128, u[2]>>]

\* math.Float64bits: sign, 11 exponent bits, 52 fraction bits (4 + 3 * 16)
Float64bits(f) == <<f.sign * 32768 + f.exp * 16 + f.frac[1], f.frac[2], f.frac[3], f.frac[4]>>

\* math.Float64frombits
Float64frombits(u) ==
  [sign |-> u[1] \div 32768, exp |-> (u[1] % 32768) \div 16,
   frac |-> <<u[1] % 16, u[2], u[3], u[4]>>]

\* the zero values the decoders return with an error
ZeroInt(n) == [neg |-> FALSE, mag |-> ZeroLimbs(n)]

ZeroFloat32 == [sign |-> 0, exp |-> 0, frac |-> <<0, 0>>]

ZeroFloat64 == [sign |-> 0, exp |-> 0, frac |-> <<0, 0, 0, 0>>]

Uint16ToBytes(value, buf) ==
  IF Len(buf) < 2 THEN [buf |-> buf, err |-> InvalidBufferSize]
  ELSE [buf |-> BigEndianPut(buf, value, 2), err |-> ErrorCodeNil]

Int16ToBytes(value, buf) == Uint16ToBytes(UintOfInt(value), buf)

Uint32ToBytes(value, buf) ==
  IF Len(buf) < 4 THEN [buf |-> buf, err |-> InvalidBufferSize]
  ELSE [buf |-> BigEndianPut(buf, value, 4), err |-> ErrorCodeNil]

Int32ToBytes(value, buf) == Uint32ToBytes(UintOfInt(value), buf)

Uint64ToBytes(value, buf) ==
  IF Len(buf) < 8 THEN [buf |-> buf, err |-> InvalidBufferSize]
  ELSE [buf |-> BigEndianPut(buf, value, 8), err |-> ErrorCodeNil]

Int64ToBytes(value, buf) == Uint64ToBytes(UintOfInt(value), buf)

Float32ToBytes(value, buf) == Uint32ToBytes(Float32bits(value), buf)

Float64ToBytes(value, buf) == Uint64ToBytes(Float64bits(value), buf)

Uint16ToBytesLE(value, buf) ==
  IF Len(buf) < 2 THEN [buf |-> buf, err |-> InvalidBufferSize]
  ELSE [buf |-> LittleEndianPut(buf, value, 2), err |-> ErrorCodeNil]

Int16ToBytesLE(value, buf) == Uint16ToBytesLE(UintOfInt(value), buf)

Uint32ToBytesLE(value, buf) ==
  IF Len(buf) < 4 THEN [buf |-> buf, err |-> InvalidBufferSize]
  ELSE [buf |-> LittleEndianPut(buf, value, 4), err |-> ErrorCodeNil]

Int32ToBytesLE(value, buf) == Uint32ToBytesLE(UintOfInt(value), buf)

\* a variant with the length check of the 32-bit encoder
Uint64ToBytesLE_ShortCheck(value, buf) ==
  IF Len(buf) < 4 THEN [buf |-> buf, err |-> InvalidBufferSize]
  ELSE [buf |-> LittleEndianPut(buf, value, 8), err |-> ErrorCodeNil]

Uint64ToBytesLE(value, buf) ==
  IF Len(buf) < 8 THEN [buf |-> buf, err |-> InvalidBufferSize]
  ELSE [buf |-> LittleEndianPut(buf, value, 8), err |-> ErrorCodeNil]

Int64ToBytesLE(value, buf) == Uint64ToBytesLE(UintOfInt(value), buf)

Float32ToBytesLE(value, buf) == Uint32ToBytesLE(Float32bits(value), buf)

Float64ToBytesLE(value, buf) == Uint64ToBytesLE(Float64bits(value), buf)

BytesToUint16(data) ==
  IF Len(data) < 2 THEN [ret |-> ZeroLimbs(1), err |-> InvalidBufferSize]
  ELSE [ret |-> OrLimbs(ShlByte(data[1], 8, 1),
                       ShlByte(data[2], 0, 1)),
        err |-> ErrorCodeNil]

BytesToInt16(data) ==
  LET u == BytesToUint16(data)
  IN  IF u.err # ErrorCodeNil THEN [ret |-> ZeroInt(1), err |-> u.err]
      ELSE [ret |-> IntOfUint(u.ret), err |-> ErrorCodeNil]

\* a variant with the weights of the two middle bytes exchanged
BytesToUint32_Swapped(data) ==
  IF Len(data) < 4 THEN [ret |-> ZeroLimbs(2), err |-> InvalidBufferSize]
  ELSE [ret |-> OrLimbs(OrLimbs(OrLimbs(ShlByte(data[1], 24, 2),
                       ShlByte(data[3], 16, 2)),
                       ShlByte(data[2], 8, 2)),
                       ShlByte(data[4], 0, 2)),
        err |-> ErrorCodeNil]

BytesToUint32(data) ==
  IF Len(data) < 4 THEN [ret |-> ZeroLimbs(2), err |-> InvalidBufferSize]
  ELSE [ret |-> OrLimbs(OrLimbs(OrLimbs(ShlByte(data[1], 24, 2),
                       ShlByte(data[2], 16, 2)),
                       ShlByte(data[3], 8, 2)),
                       ShlByte(data[4], 0, 2)),
        err |-> ErrorCodeNil]

BytesToInt32(data) ==
  LET u == BytesToUint32(data)
  IN  IF u.err # ErrorCodeNil THEN [ret |-> ZeroInt(2), err |-> u.err]
      ELSE [ret |-> IntOfUint(u.ret), err |-> ErrorCodeNil]

BytesToUint64(data) ==
  IF Len(data) < 8 THEN [ret |-> ZeroLimbs(4), err |-> InvalidBufferSize]
  ELSE [ret |-> OrLimbs(OrLimbs(OrLimbs(OrLimbs(OrLimbs(OrLimbs(OrLimbs(ShlByte(data[1], 56, 4),
                       ShlByte(data[2], 48, 4)),
                       ShlByte(data[3], 40, 4)),
                       ShlByte(data[4], 32, 4)),
                       ShlByte(data[5], 24, 4)),
                       ShlByte(data[6], 16, 4)),
                       ShlByte(data[7], 8, 4)),
                       ShlByte(data[8], 0, 4)),
        err |-> ErrorCodeNil]

BytesToInt64(data) ==
  LET u == BytesToUint64(data)
  IN  IF u.err # ErrorCodeNil THEN [ret |-> ZeroInt(4), err |-> u.err]
      ELSE [ret |-> IntOfUint(u.ret), err |-> ErrorCodeNil]

BytesToFloat32(data) ==
  LET u == BytesToUint32(data)
  IN  IF u.err # ErrorCodeNil THEN [ret |-> ZeroFloat32, err |-> u.err]
      ELSE [ret |-> Float32frombits(u.ret), err |-> ErrorCodeNil]

BytesToFloat64(data) ==
  LET u == BytesToUint64(data)
  IN  IF u.err # ErrorCodeNil THEN [ret |-> ZeroFloat64, err |-> u.err]
      ELSE [ret |-> Float64frombits(u.ret), err |-> ErrorCodeNil]

BytesToUint16LE(data) ==
  IF Len(data) < 2 THEN [ret |-> ZeroLimbs(1), err |-> InvalidBufferSize]
  ELSE [ret |-> OrLimbs(ShlByte(data[2], 8, 1),
                       ShlByte(data[1], 0, 1)),
        err |-> ErrorCodeNil]

BytesToInt16LE(data) ==
  LET u == BytesToUint16LE(data)
  IN  IF u.err # ErrorCodeNil THEN [ret |-> ZeroInt(1), err |-> u.err]
      ELSE [ret |-> IntOfUint(u.ret), err |-> ErrorCodeNil]

BytesToUint32LE(data) ==
  IF Len(data) < 4 THEN [ret |-> ZeroLimbs(2), err |-> InvalidBufferSize]
  ELSE [ret |-> OrLimbs(OrLimbs(OrLimbs(ShlByte(data[4], 24, 2),
                       ShlByte(data[3], 16, 2)),
                       ShlByte(data[2], 8, 2)),
                       ShlByte(data[1], 0, 2)),
        err |-> ErrorCodeNil]

BytesToInt32LE(data) ==
  LET u == BytesToUint32LE(data)
  IN  IF u.err # ErrorCodeNil THEN [ret |-> ZeroInt(2), err |-> u.err]
      ELSE [ret |-> IntOfUint(u.ret), err |-> ErrorCodeNil]

BytesToUint64LE(data) ==
  IF Len(data) < 8 THEN [ret |-> ZeroLimbs(4), err |-> InvalidBufferSize]
  ELSE [ret |-> OrLimbs(OrLimbs(OrLimbs(OrLimbs(OrLimbs(OrLimbs(OrLimbs(ShlByte(data[8], 56, 4),
                       ShlByte(data[7], 48, 4)),
                       ShlByte(data[6], 40, 4)),
                       ShlByte(data[5], 32, 4)),
                       ShlByte(data[4], 24, 4)),
                       ShlByte(data[3], 16, 4)),
                       ShlByte(data[2], 8, 4)),
                       ShlByte(data[1], 0, 4)),
        err |-> ErrorCodeNil]

BytesToInt64LE(data) ==
  LET u == BytesToUint64LE(data)
  IN  IF u.err # ErrorCodeNil THEN [ret |-> ZeroInt(4), err |-> u.err]
      ELSE [ret |-> IntOfUint(u.ret), err |-> ErrorCodeNil]

BytesToFloat32LE(data) ==
  LET u == BytesToUint32LE(data)
  IN  IF u.err # ErrorCodeNil THEN [ret |-> ZeroFloat32, err |-> u.err]
      ELSE [ret |-> Float32frombits(u.ret), err |-> ErrorCodeNil]

BytesToFloat64LE(data) ==
  LET u == BytesToUint64LE(data)
  IN  IF u.err # ErrorCodeNil THEN [ret |-> ZeroFloat64, err |-> u.err]
      ELSE [ret |-> Float64frombits(u.ret), err |-> ErrorCodeNil]

(***************************************************************************)
(* Inputs of the codec                                                     *)
(***************************************************************************)
MaxBufLen == 9

\* the caller's data in a buffer of its own, before any call
CallerByte(k) == 160 + k

CallerBuffers == {[k \in 1..n |-> CallerByte(k - 1)] : n \in 0..MaxBufLen}

\* 0x0000, 0x1234, 0x8000, 0xFFFF
CodecUint16Values == {<<0>>, <<4660>>, <<32768>>, <<65535>>}

\* 0x00000100, 0x12345678, 0xDEADBEEF
CodecUint32Values == {<<0, 256>>, <<4660, 22136>>, <<57005, 48879>>}

\* 1, 0x0123456789ABCDEF, 0xFFFFFFFFFFFFFFFF
CodecUint64Values ==
  {<<0, 0, 0, 1>>, <<291, 17767, 35243, 52719>>, <<65535, 65535, 65535, 65535>>}

\* 4660, -1, -32768
CodecInt16Values ==
  {[neg |-> FALSE, mag |-> <<4660>>], [neg |-> TRUE, mag |-> <<1>>],
   [neg |-> TRUE, mag |-> <<32768>>]}

\* 2^31 - 1, -2, -2^31
CodecInt32Values ==
  {[neg |-> FALSE, mag |-> <<32767, 65535>>], [neg |-> TRUE, mag |-> <<0, 2>>],
   [neg |-> TRUE, mag |-> <<32768, 0>>]}

\* 256, -255, -2^63
CodecInt64Values ==
  {[neg |-> FALSE, mag |-> <<0, 0, 0, 256>>], [neg |-> TRUE, mag |-> <<0, 0, 0, 255>>],
   [neg |-> TRUE, mag |-> <<32768, 0, 0, 0>>]}

\* 1.5, -2.25, a NaN with a payload
CodecFloat32Values ==
  {[sign |-> 0, exp |-> 127, frac |-> <<64, 0>>], [sign |-> 1, exp |-> 128, frac |-> <<16, 0>>],
   [sign |-> 0, exp |-> 255, frac |-> <<64, 1>>]}

\* 1.5, -2.25, the smallest subnormal
CodecFloat64Values ==
  {[sign |-> 0, exp |-> 1023, frac |-> <<8, 0, 0, 0>>],
   [sign |-> 1, exp |-> 1024, frac |-> <<2, 0, 0, 0>>],
   [sign |-> 0, exp |-> 0, frac |-> <<0, 0, 0, 1>>]}

CodecFrame ==
  UNCHANGED <<UintToHexBuffer, UintToDecimalBuffer, IntToDecimalBuffer, Float64ToDecimalBuffer, held, procs>>

\* an encode call with outcome run on the caller's buffer b, which becomes
\* the caller's current buffer
Encode(op, value, b, run) ==
  /\ Running
  /\ buffer' = run.buf
  /\ enc' = Call(op, value, 0, NoView, NoValue, run.err, FALSE, b)
  /\ last' = enc'
  /\ CodecFrame

\* a decode call on the caller's buffer with outcome run
Decode(op, run) ==
  /\ Running
  /\ last' = Call(op, NoValue, 0, NoView, run.ret, run.err, FALSE, buffer)
  /\ UNCHANGED <<buffer, enc>>
  /\ CodecFrame

CallUint16ToBytes ==
  \E value \in CodecUint16Values : \E b \in CallerBuffers :
    Encode("Uint16ToBytes", value, b, Uint16ToBytes(value, b))

CallInt16ToBytes ==
  \E value \in CodecInt16Values : \E b \in CallerBuffers :
    Encode("Int16ToBytes", value, b, Int16ToBytes(value, b))

CallUint32ToBytes ==
  \E value \in CodecUint32Values : \E b \in CallerBuffers :
    Encode("Uint32ToBytes", value, b, Uint32ToBytes(value, b))

CallInt32ToBytes ==
  \E value \in CodecInt32Values : \E b \in CallerBuffers :
    Encode("Int32ToBytes", value, b, Int32ToBytes(value, b))

CallUint64ToBytes ==
  \E value \in CodecUint64Values : \E b \in CallerBuffers :
    Encode("Uint64ToBytes", value, b, Uint64ToBytes(value, b))

CallInt64ToBytes ==
  \E value \in CodecInt64Values : \E b \in CallerBuffers :
    Encode("Int64ToBytes", value, b, Int64ToBytes(value, b))

CallFloat32ToBytes ==
  \E value \in CodecFloat32Values : \E b \in CallerBuffers :
    Encode("Float32ToBytes", value, b, Float32ToBytes(value, b))

CallFloat64ToBytes ==
  \E value \in CodecFloat64Values : \E b \in CallerBuffers :
    Encode("Float64ToBytes", value, b, Float64ToBytes(value, b))

CallUint16ToBytesLE ==
  \E value \in CodecUint16Values : \E b \in CallerBuffers :
    Encode("Uint16ToBytesLE", value, b, Uint16ToBytesLE(value, b))

CallInt16ToBytesLE ==
  \E value \in CodecInt16Values : \E b \in CallerBuffers :
    Encode("Int16ToBytesLE", value, b, Int16ToBytesLE(value, b))

CallUint32ToBytesLE ==
  \E value \in CodecUint32Values : \E b \in CallerBuffers :
    Encode("Uint32ToBytesLE", value, b, Uint32ToBytesLE(value, b))

CallInt32ToBytesLE ==
  \E value \in CodecInt32Values : \E b \in CallerBuffers :
    Encode("Int32ToBytesLE", value, b, Int32ToBytesLE(value, b))

CallUint64ToBytesLE ==
  \E value \in CodecUint64Values : \E b \in CallerBuffers :
    Encode("Uint64ToBytesLE", value, b, Uint64ToBytesLE(value, b))

CallInt64ToBytesLE ==
  \E value \in CodecInt64Values : \E b \in CallerBuffers :
    Encode("Int64ToBytesLE", value, b, Int64ToBytesLE(value, b))

CallFloat32ToBytesLE ==
  \E value \in CodecFloat32Values : \E b \in CallerBuffers :
    Encode("Float32ToBytesLE", value, b, Float32ToBytesLE(value, b))

CallFloat64ToBytesLE ==
  \E value \in CodecFloat64Values : \E b \in CallerBuffers :
    Encode("Float64ToBytesLE", value, b, Float64ToBytesLE(value, b))

CallBytesToUint16 == Decode("BytesToUint16", BytesToUint16(buffer))

CallBytesToInt16 == Decode("BytesToInt16", BytesToInt16(buffer))

CallBytesToUint32 == Decode("BytesToUint32", BytesToUint32(buffer))

CallBytesToInt32 == Decode("BytesToInt32", BytesToInt32(buffer))

CallBytesToUint64 == Decode("BytesToUint64", BytesToUint64(buffer))

CallBytesToInt64 == Decode("BytesToInt64", BytesToInt64(buffer))

CallBytesToFloat32 == Decode("BytesToFloat32", BytesToFloat32(buffer))

CallBytesToFloat64 == Decode("BytesToFloat64", BytesToFloat64(buffer))

CallBytesToUint16LE == Decode("BytesToUint16LE", BytesToUint16LE(buffer))

CallBytesToInt16LE == Decode("BytesToInt16LE", BytesToInt16LE(buffer))

CallBytesToUint32LE == Decode("BytesToUint32LE", BytesToUint32LE(buffer))

CallBytesToInt32LE == Decode("BytesToInt32LE", BytesToInt32LE(buffer))

CallBytesToUint64LE == Decode("BytesToUint64LE", BytesToUint64LE(buffer))

CallBytesToInt64LE == Decode("BytesToInt64LE", BytesToInt64LE(buffer))

CallBytesToFloat32LE == Decode("BytesToFloat32LE", BytesToFloat32LE(buffer))

CallBytesToFloat64LE == Decode("BytesToFloat64LE", BytesToFloat64LE(buffer))

NextCodec ==
  \/ CallUint16ToBytes
  \/ CallInt16ToBytes
  \/ CallUint32ToBytes
  \/ CallInt32ToBytes
  \/ CallUint64ToBytes
  \/ CallInt64ToBytes
  \/ CallFloat32ToBytes
  \/ CallFloat64ToBytes
  \/ CallUint16ToBytesLE
  \/ CallInt16ToBytesLE
  \/ CallUint32ToBytesLE
  \/ CallInt32ToBytesLE
  \/ CallUint64ToBytesLE
  \/ CallInt64ToBytesLE
  \/ CallFloat32ToBytesLE
  \/ CallFloat64ToBytesLE
  \/ CallBytesToUint16
  \/ CallBytesToInt16
  \/ CallBytesToUint32
  \/ CallBytesToInt32
  \/ CallBytesToUint64
  \/ CallBytesToInt64
  \/ CallBytesToFloat32
  \/ CallBytesToFloat64
  \/ CallBytesToUint16LE
  \/ CallBytesToInt16LE
  \/ CallBytesToUint32LE
  \/ CallBytesToInt32LE
  \/ CallBytesToUint64LE
  \/ CallBytesToInt64LE
  \/ CallBytesToFloat32LE
  \/ CallBytesToFloat64LE

SpecCodec == Init /\ [][NextCodec]_vars


(***************************************************************************)
(* The codec functions: each encoder with its decoder, the number of       *)
(* bytes of the width and the byte order                                   *)
(***************************************************************************)
Codecs ==
  {[kind |-> "uint", enc |-> "Uint16ToBytes", dec |-> "BytesToUint16", n |-> 2, le |-> FALSE],
   [kind |-> "int", enc |-> "Int16ToBytes", dec |-> "BytesToInt16", n |-> 2, le |-> FALSE],
   [kind |-> "uint", enc |-> "Uint32ToBytes", dec |-> "BytesToUint32", n |-> 4, le |-> FALSE],
   [kind |-> "int", enc |-> "Int32ToBytes", dec |-> "BytesToInt32", n |-> 4, le |-> FALSE],
   [kind |-> "uint", enc |-> "Uint64ToBytes", dec |-> "BytesToUint64", n |-> 8, le |-> FALSE],
   [kind |-> "int", enc |-> "Int64ToBytes", dec |-> "BytesToInt64", n |-> 8, le |-> FALSE],
   [kind |-> "float", enc |-> "Float32ToBytes", dec |-> "BytesToFloat32", n |-> 4, le |-> FALSE],
   [kind |-> "float", enc |-> "Float64ToBytes", dec |-> "BytesToFloat64", n |-> 8, le |-> FALSE],
   [kind |-> "uint", enc |-> "Uint16ToBytesLE", dec |-> "BytesToUint16LE", n |-> 2, le |-> TRUE],
   [kind |-> "int", enc |-> "Int16ToBytesLE", dec |-> "BytesToInt16LE", n |-> 2, le |-> TRUE],
   [kind |-> "uint", enc |-> "Uint32ToBytesLE", dec |-> "BytesToUint32LE", n |-> 4, le |-> TRUE],
   [kind |-> "int", enc |-> "Int32ToBytesLE", dec |-> "BytesToInt32LE", n |-> 4, le |-> TRUE],
   [kind |-> "uint", enc |-> "Uint64ToBytesLE", dec |-> "BytesToUint64LE", n |-> 8, le |-> TRUE],
   [kind |-> "int", enc |-> "Int64ToBytesLE", dec |-> "BytesToInt64LE", n |-> 8, le |-> TRUE],
   [kind |-> "float", enc |-> "Float32ToBytesLE", dec |-> "BytesToFloat32LE", n |-> 4, le |-> TRUE],
   [kind |-> "float", enc |-> "Float64ToBytesLE", dec |-> "BytesToFloat64LE", n |-> 8, le |-> TRUE]}

UintCodecs == {c \in Codecs : c.kind = "uint"}

IntCodecs == {c \in Codecs : c.kind = "int"}

\* the bytes of a limb sequence, most-significant byte first
RECURSIVE BytesOfLimbs(_)
BytesOfLimbs(x) ==
  IF x = << >> THEN << >>
  ELSE <<Head(x) \div 256, Head(x) % 256>> \o BytesOfLimbs(Tail(x))

\* the limb sequence of an even number of bytes, most-significant byte first
LimbsOfBytes(bytes) == [k \in 1..(Len(bytes) \div 2) |-> bytes[2 * k - 1] * 256 + bytes[2 * k]]

Reverse(seq) == [k \in 1..Len(seq) |-> seq[Len(seq) + 1 - k]]

\* the first n bytes of a buffer in the order most-significant byte first
LeadingBytes(buf, c) ==
  IF c.le THEN Reverse(SubSeq(buf, 1, c.n)) ELSE SubSeq(buf, 1, c.n)

\* x + y modulo 2^(16 * Len(x)) for two limb sequences of the same length
RECURSIVE AddLimbs(_, _, _)
AddLimbs(x, y, carry) ==
  IF x = << >> THEN << >>
  ELSE LET n   == Len(x)
           cur == x[n] + y[n] + carry
       IN  AddLimbs(SubSeq(x, 1, n - 1), SubSeq(y, 1, n - 1), cur \div LimbBase) \o <<cur % LimbBase>>

\* p is the two's-complement bit pattern of the signed value s
IsPatternOf(p, s) ==
  /\ Len(p) = Len(s.mag)
  /\ IF s.neg /\ ~IsZero(s.mag)
     THEN TopBit(p) /\ IsZero(AddLimbs(p, s.mag, 0))
     ELSE ~TopBit(p) /\ p = s.mag

\* C6: for every width and both byte orders, encoding an unsigned value into
\* a buffer of at least W/8 bytes returns no error, and decoding the same
\* buffer then returns the value with no error.
C6_UintRoundTrip ==
  \A c \in UintCodecs :
    (enc.op = c.enc /\ Len(enc.pre) >= c.n) =>
      /\ enc.err = ErrorCodeNil
      /\ (last.op = c.dec => last.err = ErrorCodeNil /\ last.ret = enc.value)

C6_Witness ==
  /\ enc.op = "Uint64ToBytesLE"
  /\ enc.value = <<291, 17767, 35243, 52719>>
  /\ Len(buffer) = 9
  /\ last.op = "BytesToUint64LE"
  /\ last.ret = <<291, 17767, 35243, 52719>>

\* C7: on a buffer shorter than W/8 bytes every encoder, the signed and float
\* ones included, returns InvalidBufferSize and leaves every byte of the
\* buffer unchanged, and every decoder returns InvalidBufferSize.
C7_ShortBufferRejected ==
  \A c \in Codecs :
    /\ (enc.op = c.enc /\ Len(enc.pre) < c.n) =>
         enc.err = InvalidBufferSize /\ buffer = enc.pre
    /\ (last.op = c.dec /\ Len(last.pre) < c.n) => last.err = InvalidBufferSize

C7_Witness ==
  /\ enc.op = "Float64ToBytesLE"
  /\ Len(enc.pre) = 7
  /\ enc.err = InvalidBufferSize
  /\ buffer = enc.pre
  /\ last.op = "BytesToInt64"
  /\ last.err = InvalidBufferSize

\* C8: a successful big-endian encode stores the bytes of the value
\* most-significant first and a little-endian encode least-significant first,
\* and the decoders combine the first W/8 bytes with the same weights and
\* ignore the bytes after them (Uint16ToBytesLE(0x1234) writes 0x34, 0x12;
\* BytesToUint32 of 00 00 01 00 is 256).
C8_ByteLayout ==
  \A c \in UintCodecs :
    /\ (enc.op = c.enc /\ enc.err = ErrorCodeNil) =>
         LeadingBytes(buffer, c) = BytesOfLimbs(enc.value)
    /\ (last.op = c.dec /\ last.err = ErrorCodeNil) =>
         last.ret = LimbsOfBytes(LeadingBytes(last.pre, c))
    /\ (enc.op = "Uint16ToBytesLE" /\ enc.value = <<4660>> /\ enc.err = ErrorCodeNil) =>
         SubSeq(buffer, 1, 2) = <<52, 18>>
    /\ (last.op = "BytesToUint32" /\ Len(last.pre) >= 4 /\ SubSeq(last.pre, 1, 4) = <<0, 0, 1, 0>>) =>
         last.ret = <<0, 256>>

C8_Witness ==
  /\ last.op = "BytesToUint32"
  /\ Len(buffer) = 9
  /\ SubSeq(buffer, 1, 4) = <<0, 0, 1, 0>>
  /\ buffer[5] = CallerByte(4)
  /\ last.ret = <<0, 256>>

\* C9: a successful encode changes only positions 0 .. W/8-1 of the caller's
\* buffer: every later byte keeps its value and the length is unchanged.
C9_EncodeFrame ==
  \A c \in Codecs :
    (enc.op = c.enc /\ enc.err = ErrorCodeNil) =>
      /\ Len(buffer) = Len(enc.pre)
      /\ \A k \in (c.n + 1)..Len(buffer) : buffer[k] = enc.pre[k]

C9_Witness ==
  /\ enc.op = "Uint32ToBytes"
  /\ enc.err = ErrorCodeNil
  /\ Len(enc.pre) = 9
  /\ SubSeq(buffer, 1, 4) = <<222, 173, 190, 239>>
  /\ SubSeq(buffer, 5, 9) = SubSeq(enc.pre, 5, 9)
  /\ buffer[5] = CallerByte(4)

\* C10: a signed encoder writes the bytes of the two's-complement pattern of
\* its value, a signed decoder returns the value whose two's-complement
\* pattern the first W/8 bytes spell, and so decoding an encoded signed value
\* returns it, negative values and the minimum included.
C10_SignedTwosComplement ==
  \A c \in IntCodecs :
    /\ (enc.op = c.enc /\ enc.err = ErrorCodeNil) =>
         /\ IsPatternOf(LimbsOfBytes(LeadingBytes(buffer, c)), enc.value)
         /\ (last.op = c.dec => last.err = ErrorCodeNil /\ last.ret = enc.value)
    /\ (last.op = c.dec /\ last.err = ErrorCodeNil) =>
         IsPatternOf(LimbsOfBytes(LeadingBytes(last.pre, c)), last.ret)

C10_Witness ==
  /\ enc.op = "Int64ToBytesLE"
  /\ enc.value = MinInt64
  /\ enc.err = ErrorCodeNil
  /\ SubSeq(buffer, 1, 8) = <<0, 0, 0, 0, 0, 0, 0, 128>>
  /\ last.op = "BytesToInt64LE"
  /\ last.ret = MinInt64


FloatCodecs == {c \in Codecs : c.kind = "float"}

\* the number of exponent bits of the float type of n bytes
ExponentBits(n) == IF n = 4 THEN 8 ELSE 11

\* p is the IEEE-754 bit pattern of f: the sign in the top bit, then the
\* exponent field, then the fraction field
IsFloatPattern(p, f, e) ==
  /\ Len(p) = Len(f.frac)
  /\ BitOf(p, 16 * Len(p) - 1) = f.sign
  /\ ShiftRightMask(p, 16 * Len(p) - 1 - e, e) = f.exp
  /\ ShiftRightMask(p, 16 * (Len(p) - 1), 15 - e) = f.frac[1]
  /\ \A k \in 2..Len(p) : p[k] = f.frac[k]

\* C11: a float encoder writes the bytes of the IEEE-754 bit pattern of its
\* value in the order of the function, a float decoder returns the float
\* whose bit pattern the first N/8 bytes spell, and decoding an encoded float
\* returns the same bit pattern (a NaN payload and a subnormal included).
C11_FloatBitPattern ==
  \A c \in FloatCodecs :
    /\ (enc.op = c.enc /\ enc.err = ErrorCodeNil) =>
         /\ IsFloatPattern(LimbsOfBytes(LeadingBytes(buffer, c)), enc.value, ExponentBits(c.n))
         /\ (last.op = c.dec => last.err = ErrorCodeNil /\ last.ret = enc.value)
    /\ (last.op = c.dec /\ last.err = ErrorCodeNil) =>
         IsFloatPattern(LimbsOfBytes(LeadingBytes(last.pre, c)), last.ret, ExponentBits(c.n))

C11_Witness ==
  /\ enc.op = "Float32ToBytesLE"
  /\ enc.err = ErrorCodeNil
  /\ enc.value = [sign |-> 0, exp |-> 255, frac |-> <<64, 1>>]
  /\ SubSeq(buffer, 1, 4) = <<1, 0, 192, 127>>
  /\ last.op = "BytesToFloat32LE"
  /\ last.ret = enc.value


(***************************************************************************)
(* Float decimal encoder.  A float64 is the record of its IEEE-754 fields  *)
(* [sign, exp, frac], as in the codec.  The arithmetic of Float64ToDecimal *)
(* on the fractional part is exact for the values used here, whose         *)
(* fractional part is a multiple of 1/8; it is carried out on the number   *)
(* of eighths.                                                             *)
(***************************************************************************)
Dot == 46

\* the 53-bit significand of a finite float64
Significand(f) ==
  IF f.exp = 0 THEN f.frac ELSE <<16 + f.frac[1], f.frac[2], f.frac[3], f.frac[4]>>

\* the power of two of the lowest significand bit is UnitExponent - 52,
\* i.e. |f| = Significand(f) * 2^(-LowShift(f))
LowShift(f) == 52 - ((IF f.exp = 0 THEN 1 ELSE f.exp) - 1023)

\* x >> s for s >= 0 and x << -s for s < 0, modulo 2^64
ShiftLimbs(x, s) == [k \in 1..Len(x) |-> ShiftRightMask(x, s + 16 * (Len(x) - k), 16)]

\* int64(value): truncation toward zero, for |value| < 2^63 and for -2^63
Int64OfFloat64(f) ==
  LET mag == ShiftLimbs(Significand(f), LowShift(f))
  IN  [neg |-> f.sign = 1 /\ ~IsZero(mag), mag |-> mag]

\* the fractional part of |f| in eighths
Eighths(f) == ShiftRightMask(Significand(f), LowShift(f) - 3, 3)

\* the value is within the range of int64 and its fractional part is a
\* multiple of 1/8
HasExactEighths(f) ==
  /\ f.exp < 1023 + 63 \/ (f.sign = 1 /\ f.exp = 1023 + 63 /\ IsZero(f.frac))
  /\ \A b \in 0..52 : b < LowShift(f) - 3 => BitOf(Significand(f), b) = 0

\* value - float64(intPart), in eighths: it has the sign of the value
FracPartOf(f) == IF f.sign = 1 THEN 0 - Eighths(f) ELSE Eighths(f)

\* int(x) for the number a / b, b > 0: truncation toward zero
TruncDiv(a, b) == IF a >= 0 THEN a \div b ELSE 0 - ((0 - a) \div b)

\* Float64ToDecimalLoop without `fracPart -= float64(digit)`
RECURSIVE Float64ToDecimalLoop_NoSubtract(_, _, _, _, _)
Float64ToDecimalLoop_NoSubtract(buf, idx, fracPart, i, precision) ==
  IF i < precision
  THEN LET scaled == fracPart * 10
           digit  == TruncDiv(scaled, 8)
       IN  Float64ToDecimalLoop_NoSubtract([buf EXCEPT ![idx + 1] = (48 + digit) % 256], idx + 1,
                                           scaled, i + 1, precision)
  ELSE [buf |-> buf, idx |-> idx]

\* the loop `for i := 0; i < precision; i++` of Float64ToDecimal, from
\* iteration i on, with the fractional part fracPart in eighths
RECURSIVE Float64ToDecimalLoop(_, _, _, _, _)
Float64ToDecimalLoop(buf, idx, fracPart, i, precision) ==
  IF i < precision
  THEN LET scaled == fracPart * 10
           digit  == TruncDiv(scaled, 8)
       IN  Float64ToDecimalLoop([buf EXCEPT ![idx + 1] = (48 + digit) % 256], idx + 1,
                                scaled - digit * 8, i + 1, precision)
  ELSE [buf |-> buf, idx |-> idx]

\* Float64ToDecimalRun with the capacity test before the writes
Float64ToDecimalRun_CheckFirst(intBuf0, buf0, value, precision) ==
  LET intPart == Int64OfFloat64(value)
      intRun  == IntToDecimalRun(intBuf0, intPart)
      intBuf  == SubSeq(intRun.buf, intRun.i + 1, Len(intBuf0))
      copied  == CopyBytes(buf0, 0, intBuf)
      idx     == Len(intBuf)
  IN  IF idx >= Len(buf0)
      THEN [int |-> intRun.buf, buf |-> copied, idx |-> 0,
            err |-> ErrorCodeNil, panicked |-> TRUE]
      ELSE LET dotted == [copied EXCEPT ![idx + 1] = Dot]
           IN  IF Len(buf0) - (idx + 1) < precision
               THEN [int |-> intRun.buf, buf |-> buf0, idx |-> 0,
                     err |-> ErrorCodeBuffersTooMuchPrecisionDigitsForFloat64, panicked |-> FALSE]
               ELSE LET run == Float64ToDecimalLoop(dotted, idx + 1, FracPartOf(value), 0, precision)
                    IN  [int |-> intRun.buf, buf |-> run.buf, idx |-> run.idx,
                         err |-> ErrorCodeNil, panicked |-> FALSE]

\* Float64ToDecimal on the contents intBuf0 of IntToDecimalBuffer and buf0
\* of Float64ToDecimalBuffer: the contents afterwards, the end idx of the
\* returned view, the error code and whether an index was out of range
Float64ToDecimalRun(intBuf0, buf0, value, precision) ==
  LET intPart == Int64OfFloat64(value)
      intRun  == IntToDecimalRun(intBuf0, intPart)
      intBuf  == SubSeq(intRun.buf, intRun.i + 1, Len(intBuf0))
      copied  == CopyBytes(buf0, 0, intBuf)
      idx     == Len(intBuf)
  IN  IF idx >= Len(buf0)
      THEN [int |-> intRun.buf, buf |-> copied, idx |-> 0,
            err |-> ErrorCodeNil, panicked |-> TRUE]
      ELSE LET dotted == [copied EXCEPT ![idx + 1] = Dot]
           IN  IF Len(buf0) - (idx + 1) < precision
               THEN [int |-> intRun.buf, buf |-> dotted, idx |-> 0,
                     err |-> ErrorCodeBuffersTooMuchPrecisionDigitsForFloat64, panicked |-> FALSE]
               ELSE LET run == Float64ToDecimalLoop(dotted, idx + 1, FracPartOf(value), 0, precision)
                    IN  [int |-> intRun.buf, buf |-> run.buf, idx |-> run.idx,
                         err |-> ErrorCodeNil, panicked |-> FALSE]

\* Float64ToDecimal with the integer part converted in storage of its own
Float64ToDecimal_PrivateIntBuffer(value, precision) ==
  LET run == Float64ToDecimalRun(IntToDecimalBuffer, Float64ToDecimalBuffer, value, precision)
  IN  /\ Running
      /\ IntToDecimalBuffer' = IntToDecimalBuffer
      /\ Float64ToDecimalBuffer' = run.buf
      /\ last' = Call("Float64ToDecimal", value, precision,
                      IF run.panicked \/ run.err # ErrorCodeNil THEN NoView
                      ELSE [buf |-> "float", lo |-> 0, hi |-> run.idx],
                      NoValue, run.err, run.panicked, << >>)
      /\ UNCHANGED <<UintToHexBuffer, UintToDecimalBuffer, buffer, enc, held, procs>>

Float64ToDecimal(value, precision) ==
  LET run == Float64ToDecimalRun(IntToDecimalBuffer, Float64ToDecimalBuffer, value, precision)
  IN  /\ Running
      /\ IntToDecimalBuffer' = run.int
      /\ Float64ToDecimalBuffer' = run.buf
      /\ last' = Call("Float64ToDecimal", value, precision,
                      IF run.panicked \/ run.err # ErrorCodeNil THEN NoView
                      ELSE [buf |-> "float", lo |-> 0, hi |-> run.idx],
                      NoValue, run.err, run.panicked, << >>)
      /\ UNCHANGED <<UintToHexBuffer, UintToDecimalBuffer, buffer, enc, held, procs>>

\* 1.5, 9.875, 1234567, 12345678, -2.25, -0.5, 0.1
Float64Candidates ==
  {[sign |-> 0, exp |-> 1023, frac |-> <<8, 0, 0, 0>>],
   [sign |-> 0, exp |-> 1026, frac |-> <<3, 49152, 0, 0>>],
   [sign |-> 0, exp |-> 1043, frac |-> <<2, 54919, 0, 0>>],
   [sign |-> 0, exp |-> 1046, frac |-> <<7, 35881, 49152, 0>>],
   [sign |-> 1, exp |-> 1024, frac |-> <<2, 0, 0, 0>>],
   [sign |-> 1, exp |-> 1022, frac |-> <<0, 0, 0, 0>>],
   [sign |-> 0, exp |-> 1019, frac |-> <<9, 39321, 39321, 39322>>]}

\* the values on which the arithmetic of the model is the arithmetic of
\* float64
Float64Values == {f \in Float64Candidates : HasExactEighths(f)}

MaxPrecision == 6

Precisions == {0, 1, 2, MaxPrecision}

CallFloat64ToDecimal ==
  \E value \in Float64Values : \E precision \in Precisions : Float64ToDecimal(value, precision)

NextFloat == CallFloat64ToDecimal

SpecFloat == Init /\ [][NextFloat]_vars

\* the first p decimal digits of the fraction n / 8, as glyphs
FractionDigits(n, p) == [j \in 1..p |-> 48 + (((n * (10 ^ j)) \div 8) % 10)]

\* the decimal text of the integer part of |f|
IntegerText(f) == DecimalText(Int64OfFloat64(f).mag)

\* C12: for a non-negative x with an exact fraction and k integer digits and
\* a precision 0 <= p <= 8 - (k + 1), Float64ToDecimal(x, p) returns no error
\* and k + 1 + p bytes: the digits of trunc(x), '.', and the first p decimal
\* digits of the fraction, truncated (Float64ToDecimal(1.5, 2) is "1.50").
C12_Float64ToDecimalNonNegative ==
  (/\ last.op = "Float64ToDecimal"
   /\ last.value.sign = 0
   /\ last.width >= 0
   /\ last.width <= Float64ToDecimalBufferLen - (Len(IntegerText(last.value)) + 1)) =>
    LET text == ViewBytes(last.view)
        k    == Len(IntegerText(last.value))
    IN  /\ ~last.panicked
        /\ last.err = ErrorCodeNil
        /\ last.view.lo = 0
        /\ Len(text) = k + 1 + last.width
        /\ text = IntegerText(last.value) \o <<Dot>> \o FractionDigits(Eighths(last.value), last.width)
        /\ (last.value = [sign |-> 0, exp |-> 1023, frac |-> <<8, 0, 0, 0>>] /\ last.width = 2
              => text = <<49, 46, 53, 48>>)

\* 9.875 with the largest precision that fits: "9.875000"
C12_Witness ==
  /\ last.op = "Float64ToDecimal"
  /\ last.value = [sign |-> 0, exp |-> 1026, frac |-> <<3, 49152, 0, 0>>]
  /\ last.width = 6
  /\ last.err = ErrorCodeNil
  /\ ViewBytes(last.view) = <<57, 46, 56, 55, 53, 48, 48, 48>>

\* C13: for a negative x with a non-zero exact fraction and a precision that
\* fits, Float64ToDecimal(x, p) returns '-', the digits of trunc(|x|), '.',
\* and the first p decimal digits of the fraction of |x|
\* (Float64ToDecimal(-2.25, 1) is "-2.2"), also for x in (-1, 0).
C13_Float64ToDecimalNegative ==
  (/\ last.op = "Float64ToDecimal"
   /\ last.value.sign = 1
   /\ Eighths(last.value) # 0
   /\ last.width >= 0
   /\ last.width <= Float64ToDecimalBufferLen - (Len(IntegerText(last.value)) + 2)) =>
    /\ ~last.panicked
    /\ last.err = ErrorCodeNil
    /\ ViewBytes(last.view) =
         <<MinusSign>> \o IntegerText(last.value) \o <<Dot>>
           \o FractionDigits(Eighths(last.value), last.width)

\* C14: whenever the precision exceeds what remains of the 8 bytes after the
\* integer-part text and the '.', Float64ToDecimal returns the
\* TooMuchPrecisionForFloat code as an ordinary return value.
C14_TooMuchPrecisionReturned ==
  (/\ last.op = "Float64ToDecimal"
   /\ last.width > Float64ToDecimalBufferLen
                     - (Len(IntegerText(last.value)) + (IF Int64OfFloat64(last.value).neg THEN 2 ELSE 1))) =>
    /\ ~last.panicked
    /\ last.err = ErrorCodeBuffersTooMuchPrecisionDigitsForFloat64

\* C17: the decimal encoders have no failure path: for every value and every
\* width, widths above 20 included, the call returns a view and never
\* indexes or slices outside the 20-byte decimal buffer.
C17_DecimalEncodersNeverFail ==
  last.op \in {"UintToDecimal", "UintToDecimalFixed", "IntToDecimal"} =>
    /\ ~last.panicked
    /\ last.view.buf # "none"
    /\ 0 <= last.view.lo /\ last.view.lo <= last.view.hi
    /\ last.view.hi <= UintToDecimalBufferLen

\* what a hex encoder call does to position p of the hex buffer
HexStepAt(p) ==
  IF p < last'.width \div 4
  THEN UintToHexBuffer'[p + 1] =
         ASCIIHexDigits[UintToHexIndex(Uint64Of(last'.value), last'.width, p) + 1]
  ELSE UintToHexBuffer'[p + 1] = UintToHexBuffer[p + 1]

\* the glyph indices of the most recent hex call: the sentinel -1 exactly at
\* the positions from W/4 on, where the alphabet is not looked up
HexIndicesInRange ==
  last.op \in HexOps =>
    \A c \in 0..(UintToHexBufferLen - 1) :
      LET index == UintToHexIndex(Uint64Of(last.value), last.width, c)
      IN  /\ index \in -1..15
          /\ (index = -1) <=> (c >= last.width \div 4)

\* C20: a hex encoder of width W writes the glyphs of its value at positions
\* 0 .. W/4-1 of the hex buffer and leaves positions W/4 .. 15 unchanged (so
\* that position p holds the glyph of the most recent call with W/4 > p, or
\* the initial zero), and every index used to look up the alphabet is in
\* 0..15: UintToHexIndex returns -1 only for positions that are not written.
C20_HexFrame ==
  /\ [][last'.op \in HexOps => \A p \in 0..(UintToHexBufferLen - 1) : HexStepAt(p)]_vars
  /\ []HexIndicesInRange

\* Uint64ToHex(2^64 - 1), then Uint8ToHex(0): "00" followed by the fourteen
\* 'F' of the earlier call
C20_Witness ==
  /\ last.op = "Uint8ToHex"
  /\ last.value = <<0>>
  /\ UintToHexBuffer = <<48, 48, 70, 70, 70, 70, 70, 70, 70, 70, 70, 70, 70, 70, 70, 70>>

(***************************************************************************)
(* Retained views.  The encoders return a slice of a package-level array,  *)
(* so a caller that keeps the returned slice keeps a window onto the       *)
(* array.  `held` is the view a caller kept, with the bytes it read when   *)
(* it was returned.                                                        *)
(***************************************************************************)
Retain ==
  /\ Running
  /\ last.view.buf # "none"
  /\ held.op # last.op \/ held.view # last.view \/ held.bytes # ViewBytes(last.view)
  /\ held' = [op |-> last.op, value |-> last.value, view |-> last.view,
              bytes |-> ViewBytes(last.view)]
  /\ UNCHANGED <<UintToHexBuffer, UintToDecimalBuffer, IntToDecimalBuffer, Float64ToDecimalBuffer,
                 buffer, enc, last, procs>>

\* 0xDEADBEEF, 0x00000100
RetainUint32Values == {<<57005, 48879>>, <<0, 256>>}

\* 0x1234
RetainUint16Values == {<<4660>>}

\* 255, 100
RetainDecimalValues == {<<0, 0, 0, 255>>, <<0, 0, 0, 100>>}

\* 7 padded to three and to five bytes
RetainFixedValues == {<<0, 0, 0, 7>>}

RetainFixedWidths == {3, 5}

\* 100, -25
RetainInt64Values ==
  {[neg |-> FALSE, mag |-> <<0, 0, 0, 100>>], [neg |-> TRUE, mag |-> <<0, 0, 0, 25>>]}

RetainUint32ToHex == \E value \in RetainUint32Values : Uint32ToHex(value)

RetainUint16ToHex == \E value \in RetainUint16Values : Uint16ToHex(value)

RetainUintToDecimal == \E value \in RetainDecimalValues : UintToDecimal(value)

RetainUintToDecimalFixed ==
  \E value \in RetainFixedValues : \E width \in RetainFixedWidths : UintToDecimalFixed(value, width)

RetainIntToDecimal == \E value \in RetainInt64Values : IntToDecimal(value)

NextRetain ==
  \/ RetainUint32ToHex
  \/ RetainUint16ToHex
  \/ RetainUintToDecimal
  \/ RetainUintToDecimalFixed
  \/ RetainIntToDecimal
  \/ Retain

SpecRetain == Init /\ [][NextRetain]_vars

\* the bytes the view of a call reads when the call runs on zeroed scratch
\* buffers
FreshText(call) ==
  CASE call.op \in HexOps ->
         SubSeq(UintToHexLoop(ZeroBytes(UintToHexBufferLen), Uint64Of(call.value), call.width, 0),
                1, call.width \div 4)
    [] call.op = "UintToDecimal" -> DecimalText(call.value)
    [] call.op = "UintToDecimalFixed" ->
         LET run == UintToDecimalFixedRun(ZeroBytes(UintToDecimalBufferLen), call.value, call.width)
         IN  SubSeq(run.buf, run.lo + 1, run.hi)
    [] call.op = "IntToDecimal" ->
         LET run == IntToDecimalRun(ZeroBytes(IntToDecimalBufferLen), call.value)
         IN  SubSeq(run.buf, run.i + 1, IntToDecimalBufferLen)
    [] call.op = "Float64ToDecimal" ->
         LET run == Float64ToDecimalRun(ZeroBytes(IntToDecimalBufferLen),
                                        ZeroBytes(Float64ToDecimalBufferLen), call.value, call.width)
         IN  SubSeq(run.buf, 1, run.idx)

Max(a, b) == IF a >= b THEN a ELSE b

Min(a, b) == IF a <= b THEN a ELSE b

\* the positions [OverlapLo, OverlapHi) that both the kept view and the view
\* of the last call cover
OverlapLo == Max(held.view.lo, last.view.lo)

OverlapHi == Min(held.view.hi, last.view.hi)

\* at the positions the last call returned, the kept view reads the text of
\* the last call
HeldReadsLast ==
  OverlapLo < OverlapHi =>
    SubSeq(ViewBytes(held.view), OverlapLo - held.view.lo + 1, OverlapHi - held.view.lo)
      = SubSeq(FreshText(last), OverlapLo - last.view.lo + 1, OverlapHi - last.view.lo)

UintDecimalOps == {"UintToDecimal", "UintToDecimalFixed"}

CrossDecimalCall ==
  /\ held'.op = held.op /\ held'.view = held.view /\ held'.bytes = held.bytes
  /\ \/ held.op = "IntToDecimal" /\ last'.op \in UintDecimalOps
     \/ held.op \in UintDecimalOps /\ last'.op = "IntToDecimal"

ScratchUint8Values == {<<165>>}

\* 0x1234
ScratchUint16Values == {<<4660>>}

\* 0xDEADBEEF
ScratchUint32Values == {<<57005, 48879>>}

\* 0x0123456789ABCDEF
ScratchUint64Values == {<<291, 17767, 35243, 52719>>}

\* 2^64 - 1, the longest text
ScratchDecimalValues == {<<65535, 65535, 65535, 65535>>}

\* 7 padded to five bytes
ScratchFixedValues == {<<0, 0, 0, 7>>}

ScratchFixedWidths == {5}

\* -25
ScratchInt64Values == {[neg |-> TRUE, mag |-> <<0, 0, 0, 25>>]}

\* 1.5 and 1234567
ScratchFloat64Values ==
  {[sign |-> 0, exp |-> 1023, frac |-> <<8, 0, 0, 0>>],
   [sign |-> 0, exp |-> 1043, frac |-> <<2, 54919, 0, 0>>]}

ScratchPrecisions == {0, 2}

ScratchUint8ToHex == \E value \in ScratchUint8Values : Uint8ToHex(value)

ScratchUint16ToHex == \E value \in ScratchUint16Values : Uint16ToHex(value)

ScratchUint32ToHex == \E value \in ScratchUint32Values : Uint32ToHex(value)

ScratchUint64ToHex == \E value \in ScratchUint64Values : Uint64ToHex(value)

ScratchUintToDecimal == \E value \in ScratchDecimalValues : UintToDecimal(value)

ScratchUintToDecimalFixed ==
  \E value \in ScratchFixedValues : \E width \in ScratchFixedWidths :
    UintToDecimalFixed(value, width)

ScratchIntToDecimal == \E value \in ScratchInt64Values : IntToDecimal(value)

ScratchFloat64ToDecimal ==
  \E value \in ScratchFloat64Values : \E precision \in ScratchPrecisions :
    Float64ToDecimal(value, precision)

NextScratch ==
  \/ ScratchUint8ToHex
  \/ ScratchUint16ToHex
  \/ ScratchUint32ToHex
  \/ ScratchUint64ToHex
  \/ ScratchUintToDecimal
  \/ ScratchUintToDecimalFixed
  \/ ScratchIntToDecimal
  \/ ScratchFloat64ToDecimal

SpecScratch == Init /\ [][NextScratch]_vars

\* the error code of a call when it runs on zeroed scratch buffers
FreshErr(call) ==
  IF call.op = "Float64ToDecimal"
  THEN Float64ToDecimalRun(ZeroBytes(IntToDecimalBufferLen), ZeroBytes(Float64ToDecimalBufferLen),
                           call.value, call.width).err
  ELSE ErrorCodeNil

ScratchOps ==
  HexOps \cup {"UintToDecimal", "UintToDecimalFixed", "IntToDecimal", "Float64ToDecimal"}

\* C18: called one at a time, each encoder is a function of its arguments
\* only: whatever earlier calls left in the scratch buffers, the call returns
\* the error code, the length and the bytes it returns on zeroed buffers, so
\* no byte of a returned view is left over from an earlier call.
C18_FunctionOfArguments ==
  (last.op \in ScratchOps /\ ~last.panicked) =>
    /\ last.err = FreshErr(last)
    /\ last.err = ErrorCodeNil =>
         /\ ViewLen(last.view) = Len(FreshText(last))
         /\ ViewBytes(last.view) = FreshText(last)

\* UintToDecimalFixed(7, 5) on a buffer that holds the twenty digits of
\* 2^64 - 1 from an earlier call
C18_Witness ==
  /\ last.op = "UintToDecimalFixed"
  /\ ViewBytes(last.view) = <<48, 48, 48, 48, 55>>
  /\ UintToDecimalBuffer[7] = 52
  /\ UintToDecimalBuffer[19] = 49
  /\ UintToDecimalBuffer[20] = 55

(***************************************************************************)
(* Concurrent codec calls.  Each caller in Procs makes one codec call on   *)
(* a buffer of its own; the length test is one step and every byte write   *)
(* of an encoder (binary.BigEndian.PutUintN stores buffer[0], buffer[1],   *)
(* ... in turn) and every byte read of a decoder is one step, so that the  *)
(* steps of the two callers interleave in every order.                     *)
(***************************************************************************)
\* the bit pattern an encoder of codec c stores for value
BitsOf(c, value) ==
  IF c.kind = "uint" THEN value
  ELSE IF c.kind = "int" THEN UintOfInt(value)
  ELSE IF c.n = 4 THEN Float32bits(value)
  ELSE Float64bits(value)

\* the value a decoder of codec c returns for the pattern u
ValueOf(c, u) ==
  IF c.kind = "uint" THEN u
  ELSE IF c.kind = "int" THEN IntOfUint(u)
  ELSE IF c.n = 4 THEN Float32frombits(u)
  ELSE Float64frombits(u)

\* the zero value a decoder of codec c returns with an error
ZeroOf(c) ==
  IF c.kind = "uint" THEN ZeroLimbs(c.n \div 2)
  ELSE IF c.kind = "int" THEN ZeroInt(c.n \div 2)
  ELSE IF c.n = 4 THEN ZeroFloat32
  ELSE ZeroFloat64

\* the shift of byte k (from 0) of an n-byte value in the byte order
ShiftOf(n, le, k) == IF le THEN 8 * k ELSE 8 * (n - 1 - k)

\* the call starts: the length test of the function
StartProc(c, decode, value, buf) ==
  IF Len(buf) < c.n
  THEN [pc |-> "done", op |-> IF decode THEN c.dec ELSE c.enc, n |-> c.n, le |-> c.le,
        kind |-> c.kind, value |-> value, buf |-> buf, k |-> 0, acc |-> << >>,
        ret |-> IF decode THEN ZeroOf(c) ELSE NoValue, err |-> InvalidBufferSize, pre |-> buf,
        overlap |-> FALSE]
  ELSE [pc |-> IF decode THEN "read" ELSE "write", op |-> IF decode THEN c.dec ELSE c.enc,
        n |-> c.n, le |-> c.le, kind |-> c.kind, value |-> value, buf |-> buf, k |-> 0,
        acc |-> IF decode THEN ZeroLimbs(c.n \div 2) ELSE BitsOf(c, value),
        ret |-> NoValue, err |-> ErrorCodeNil, pre |-> buf, overlap |-> FALSE]

\* a variant in which the callers' slices share their storage: a byte
\* written by one caller lands in every buffer
CodecStep_SharedStorage(ps, p) ==
  LET me    == ps[p]
      shift == ShiftOf(me.n, me.le, me.k)
      last_ == me.k + 1 = me.n
  IN  IF me.pc = "write"
      THEN [q \in Procs |->
              IF q = p
              THEN [me EXCEPT !.buf = [me.buf EXCEPT ![me.k + 1] = ByteOf(me.acc, shift)],
                              !.k = me.k + 1,
                              !.pc = IF last_ THEN "done" ELSE "write"]
              ELSE IF Len(ps[q].buf) > me.k
              THEN [ps[q] EXCEPT !.buf = [ps[q].buf EXCEPT ![me.k + 1] = ByteOf(me.acc, shift)]]
              ELSE ps[q]]
      ELSE LET acc == OrLimbs(me.acc, ShlByte(me.buf[me.k + 1], shift, me.n \div 2))
           IN  [ps EXCEPT ![p] =
                  [me EXCEPT !.acc = acc,
                             !.k = me.k + 1,
                             !.pc = IF last_ THEN "done" ELSE "read",
                             !.ret = IF last_ THEN ValueOf(me, acc) ELSE NoValue]]

\* the next byte of caller p: an encoder stores byte k of the pattern into
\* its buffer, a decoder ors byte k of its buffer into the pattern; after
\* the last byte the call returns
CodecStep(ps, p) ==
  LET me    == ps[p]
      shift == ShiftOf(me.n, me.le, me.k)
      last_ == me.k + 1 = me.n
  IN  IF me.pc = "write"
      THEN [ps EXCEPT ![p] =
              [me EXCEPT !.buf = [me.buf EXCEPT ![me.k + 1] = ByteOf(me.acc, shift)],
                         !.k = me.k + 1,
                         !.pc = IF last_ THEN "done" ELSE "write"]]
      ELSE LET acc == OrLimbs(me.acc, ShlByte(me.buf[me.k + 1], shift, me.n \div 2))
           IN  [ps EXCEPT ![p] =
                  [me EXCEPT !.acc = acc,
                             !.k = me.k + 1,
                             !.pc = IF last_ THEN "done" ELSE "read",
                             !.ret = IF last_ THEN ValueOf(me, acc) ELSE NoValue]]

\* one value for every codec: 0x1234, 0xDEADBEEF, 0x0123456789ABCDEF, -2,
\* -1.5 (float32) and 1.5 (float64)
ConcValue(c) ==
  IF c.kind = "uint"
  THEN (IF c.n = 2 THEN <<4660>>
        ELSE IF c.n = 4 THEN <<57005, 48879>>
        ELSE <<291, 17767, 35243, 52719>>)
  ELSE IF c.kind = "int"
  THEN [neg |-> TRUE, mag |-> ZeroLimbs((c.n \div 2) - 1) \o <<2>>]
  ELSE IF c.n = 4 THEN [sign |-> 1, exp |-> 127, frac |-> <<64, 0>>]
  ELSE [sign |-> 0, exp |-> 1023, frac |-> <<8, 0, 0, 0>>]

\* the buffers of caller p: a short one and one that every width fits, with
\* contents that differ between the callers
ConcBuffers(p) == {[k \in 1..len |-> 16 * p + k] : len \in {1, 9}}

CallStart(p) ==
  /\ procs[p].pc = "idle"
  /\ \E c \in Codecs : \E decode \in BOOLEAN : \E b \in ConcBuffers(p) :
       procs' = [procs EXCEPT ![p] = StartProc(c, decode, IF decode THEN NoValue ELSE ConcValue(c), b)]
  /\ UNCHANGED <<UintToHexBuffer, UintToDecimalBuffer, IntToDecimalBuffer, Float64ToDecimalBuffer,
                 buffer, enc, last, held>>

CallStep(p) ==
  /\ procs[p].pc \in {"read", "write"}
  /\ procs' = CodecStep(procs, p)
  /\ UNCHANGED <<UintToHexBuffer, UintToDecimalBuffer, IntToDecimalBuffer, Float64ToDecimalBuffer,
                 buffer, enc, last, held>>

NextConc == \E p \in Procs : CallStart(p) \/ CallStep(p)

SpecConc == Init /\ [][NextConc]_vars

\* the encoders by name, run as a whole
EncodeRun(op, value, buf) ==
  CASE op = "Uint16ToBytes" -> Uint16ToBytes(value, buf)
    [] op = "Int16ToBytes" -> Int16ToBytes(value, buf)
    [] op = "Uint32ToBytes" -> Uint32ToBytes(value, buf)
    [] op = "Int32ToBytes" -> Int32ToBytes(value, buf)
    [] op = "Uint64ToBytes" -> Uint64ToBytes(value, buf)
    [] op = "Int64ToBytes" -> Int64ToBytes(value, buf)
    [] op = "Float32ToBytes" -> Float32ToBytes(value, buf)
    [] op = "Float64ToBytes" -> Float64ToBytes(value, buf)
    [] op = "Uint16ToBytesLE" -> Uint16ToBytesLE(value, buf)
    [] op = "Int16ToBytesLE" -> Int16ToBytesLE(value, buf)
    [] op = "Uint32ToBytesLE" -> Uint32ToBytesLE(value, buf)
    [] op = "Int32ToBytesLE" -> Int32ToBytesLE(value, buf)
    [] op = "Uint64ToBytesLE" -> Uint64ToBytesLE(value, buf)
    [] op = "Int64ToBytesLE" -> Int64ToBytesLE(value, buf)
    [] op = "Float32ToBytesLE" -> Float32ToBytesLE(value, buf)
    [] op = "Float64ToBytesLE" -> Float64ToBytesLE(value, buf)

\* the decoders by name, run as a whole
DecodeRun(op, data) ==
  CASE op = "BytesToUint16" -> BytesToUint16(data)
    [] op = "BytesToInt16" -> BytesToInt16(data)
    [] op = "BytesToUint32" -> BytesToUint32(data)
    [] op = "BytesToInt32" -> BytesToInt32(data)
    [] op = "BytesToUint64" -> BytesToUint64(data)
    [] op = "BytesToInt64" -> BytesToInt64(data)
    [] op = "BytesToFloat32" -> BytesToFloat32(data)
    [] op = "BytesToFloat64" -> BytesToFloat64(data)
    [] op = "BytesToUint16LE" -> BytesToUint16LE(data)
    [] op = "BytesToInt16LE" -> BytesToInt16LE(data)
    [] op = "BytesToUint32LE" -> BytesToUint32LE(data)
    [] op = "BytesToInt32LE" -> BytesToInt32LE(data)
    [] op = "BytesToUint64LE" -> BytesToUint64LE(data)
    [] op = "BytesToInt64LE" -> BytesToInt64LE(data)
    [] op = "BytesToFloat32LE" -> BytesToFloat32LE(data)
    [] op = "BytesToFloat64LE" -> BytesToFloat64LE(data)

EncoderNames == {c.enc : c \in Codecs}

\* caller p has returned what its call returns when it runs alone on the
\* buffer the caller passed
ReturnedAsAlone(p) ==
  LET me == procs[p]
  IN  IF me.op \in EncoderNames
      THEN LET run == EncodeRun(me.op, me.value, me.pre)
           IN  me.buf = run.buf /\ me.err = run.err
      ELSE LET run == DecodeRun(me.op, me.pre)
           IN  me.buf = me.pre /\ me.err = run.err /\ me.ret = run.ret

ScratchUntouched ==
  /\ UintToHexBuffer = ZeroBytes(UintToHexBufferLen)
  /\ UintToDecimalBuffer = ZeroBytes(UintToDecimalBufferLen)
  /\ IntToDecimalBuffer = ZeroBytes(IntToDecimalBufferLen)
  /\ Float64ToDecimalBuffer = ZeroBytes(Float64ToDecimalBufferLen)

\* C16: codec calls touch no shared state: for two codec calls running
\* concurrently on buffers of their own, every interleaving of their byte
\* reads and writes ends with each buffer and each returned value and error
\* code equal to what the call produces when run by itself, and no codec
\* step reads or writes a scratch buffer.
C16_CodecCallsIndependent ==
  /\ \A p \in Procs : procs[p].pc = "done" => ReturnedAsAlone(p)
  /\ ScratchUntouched

\* both callers have returned: one stored 0xDEADBEEF little-endian, the other
\* read a big-endian uint16 from its own bytes
C16_Witness ==
  /\ procs[1].pc = "done" /\ procs[1].op = "Uint32ToBytesLE"
  /\ procs[1].err = ErrorCodeNil
  /\ Len(procs[1].buf) = 9
  /\ SubSeq(procs[1].buf, 1, 5) = <<239, 190, 173, 222, 21>>
  /\ procs[2].pc = "done" /\ procs[2].op = "BytesToUint16"
  /\ procs[2].err = ErrorCodeNil
  /\ procs[2].ret = <<33 * 256 + 34>>

(***************************************************************************)
(* Frame of the scratch buffers.  Every scratch encoder is called with a   *)
(* view possibly kept from an earlier call, so that a step shows which of  *)
(* the four package-level buffers the call wrote.                          *)
(***************************************************************************)
\* 0xA5
FrameUint8Values == {<<165>>}

\* 0xDEADBEEF
FrameUint32Values == {<<57005, 48879>>}

\* 255
FrameDecimalValues == {<<0, 0, 0, 255>>}

\* 7 padded to five bytes
FrameFixedValues == {<<0, 0, 0, 7>>}

FrameFixedWidths == {5}

\* -25
FrameInt64Values == {[neg |-> TRUE, mag |-> <<0, 0, 0, 25>>]}

\* -12.5, 1234567, 12345678
FrameFloat64Values ==
  {[sign |-> 1, exp |-> 1026, frac |-> <<9, 0, 0, 0>>],
   [sign |-> 0, exp |-> 1043, frac |-> <<2, 54919, 0, 0>>],
   [sign |-> 0, exp |-> 1046, frac |-> <<7, 35881, 49152, 0>>]}

FramePrecisions == {2}

FrameUint8ToHex == \E value \in FrameUint8Values : Uint8ToHex(value)

FrameUint32ToHex == \E value \in FrameUint32Values : Uint32ToHex(value)

FrameUintToDecimal == \E value \in FrameDecimalValues : UintToDecimal(value)

FrameUintToDecimalFixed ==
  \E value \in FrameFixedValues : \E width \in FrameFixedWidths : UintToDecimalFixed(value, width)

FrameIntToDecimal == \E value \in FrameInt64Values : IntToDecimal(value)

FrameFloat64ToDecimal ==
  \E value \in FrameFloat64Values : \E precision \in FramePrecisions :
    Float64ToDecimal(value, precision)

NextFrame ==
  \/ FrameUint8ToHex
  \/ FrameUint32ToHex
  \/ FrameUintToDecimal
  \/ FrameUintToDecimalFixed
  \/ FrameIntToDecimal
  \/ FrameFloat64ToDecimal
  \/ Retain

SpecFrame == Init /\ [][NextFrame]_vars

\* the text IntToDecimal gives for the integer part of f
IntPartText(f) ==
  (IF Int64OfFloat64(f).neg THEN <<MinusSign>> ELSE << >>) \o IntegerText(f)

\* the kept view is the same before and after the step, so the step is a
\* call of an encoder
HeldKept == held'.op = held.op /\ held'.view = held.view /\ held'.bytes = held.bytes

\* a step that is a call of Float64ToDecimal
Float64ToDecimalStep == HeldKept /\ last'.op = "Float64ToDecimal"

\* a step that is a call of a hex encoder, UintToDecimal, UintToDecimalFixed
\* or IntToDecimal
OtherEncoderStep ==
  HeldKept /\ last'.op \in HexOps \cup {"UintToDecimal", "UintToDecimalFixed", "IntToDecimal"}

\* the call wrote the text of the integer part at the end of
\* IntToDecimalBuffer and nothing else of it
IntPartWritten ==
  LET text == IntPartText(last'.value)
      keep == IntToDecimalBufferLen - Len(text)
  IN  IntToDecimalBuffer' = SubSeq(IntToDecimalBuffer, 1, keep) \o text

\* a view kept from IntToDecimal reads, at the positions the integer part of
\* the float occupies, the integer part
HeldReadsIntPart ==
  LET text == IntPartText(last.value)
      from == Max(held.view.lo, IntToDecimalBufferLen - Len(text))
  IN  /\ held.view.buf = "int"
      /\ held.view.hi = IntToDecimalBufferLen
      /\ SubSeq(ViewBytes(held.view), from - held.view.lo + 1, ViewLen(held.view))
           = SubSeq(text, from - (IntToDecimalBufferLen - Len(text)) + 1, Len(text))
      /\ Len(text) = ViewLen(held.view) => ViewBytes(held.view) = text

\* C21: every Float64ToDecimal call, returning a view, the precision error
\* code or failing, writes the text of its integer part into the buffer of
\* IntToDecimal, so that a view kept from an earlier IntToDecimal call reads
\* the integer part of the float where the two overlap, and leaves the hex
\* buffer and the buffer of UintToDecimal/UintToDecimalFixed unchanged; the
\* hex encoders, UintToDecimal, UintToDecimalFixed and IntToDecimal never
\* change the float buffer.
C21_Float64ToDecimalFrame ==
  /\ [][Float64ToDecimalStep =>
          /\ IntPartWritten
          /\ UintToHexBuffer' = UintToHexBuffer
          /\ UintToDecimalBuffer' = UintToDecimalBuffer]_vars
  /\ [][OtherEncoderStep => Float64ToDecimalBuffer' = Float64ToDecimalBuffer]_vars
  /\ []((held.op = "IntToDecimal" /\ last.op = "Float64ToDecimal") => HeldReadsIntPart)

\* IntToDecimal(-25) kept, then Float64ToDecimal(1234567, 2), which returns
\* the precision error code: the kept view reads "567", and the hex and
\* decimal buffers hold what earlier calls left
C21_Witness ==
  /\ held.op = "IntToDecimal"
  /\ held.bytes = <<45, 50, 53>>
  /\ last.op = "Float64ToDecimal"
  /\ last.err = ErrorCodeBuffersTooMuchPrecisionDigitsForFloat64
  /\ ViewBytes(held.view) = <<53, 54, 55>>
  /\ SubSeq(UintToHexBuffer, 1, 8) = <<68, 69, 65, 68, 66, 69, 69, 70>>
  /\ SubSeq(UintToDecimalBuffer, 18, 20) = <<50, 53, 53>>

\* a step that is a Float64ToDecimal call returning the precision error code
TooMuchPrecisionStep ==
  /\ last'.op = "Float64ToDecimal"
  /\ ~last'.panicked
  /\ last'.err = ErrorCodeBuffersTooMuchPrecisionDigitsForFloat64

\* the integer-part text of the call and the '.'
IntPartAndDot == IntPartText(last'.value) \o <<Dot>>

\* the float buffer begins with the integer-part text and the '.', and the
\* bytes after them are the bytes from before the call
OnlyIntPartAndDotWritten ==
  Float64ToDecimalBuffer' =
    IntPartAndDot \o SubSeq(Float64ToDecimalBuffer, Len(IntPartAndDot) + 1, Float64ToDecimalBufferLen)

\* a returned view starts at index 0 of the float buffer and has at most 8
\* bytes
SuccessViewInRange ==
  (last.op = "Float64ToDecimal" /\ ~last.panicked /\ last.err = ErrorCodeNil) =>
    /\ last.view.buf = "float"
    /\ last.view.lo = 0
    /\ ViewLen(last.view) <= Float64ToDecimalBufferLen

\* C22 as stated: when Float64ToDecimal returns the precision error code the
\* returned view is nil and no fractional digit has been written, the float
\* buffer holds the integer-part text followed by '.', and its contents
\* differ from before the call; a returned view starts at index 0 and has
\* at most 8 bytes.
C22_ErrorCallChangesBuffer ==
  /\ [][TooMuchPrecisionStep =>
          /\ last'.view = NoView
          /\ OnlyIntPartAndDotWritten
          /\ Float64ToDecimalBuffer' # Float64ToDecimalBuffer]_vars
  /\ []SuccessViewInRange

\* C22: when Float64ToDecimal returns the precision error code the returned
\* view is nil and no fractional digit has been written, but the call has
\* written the float buffer: it begins with the integer-part text followed
\* by '.', so its contents differ from before the call exactly when it did
\* not begin with that text already; a returned view starts at index 0 and
\* has at most 8 bytes.
C22_ErrorCallWritesIntegerPart ==
  /\ [][TooMuchPrecisionStep =>
          /\ last'.view = NoView
          /\ OnlyIntPartAndDotWritten
          /\ (Float64ToDecimalBuffer' # Float64ToDecimalBuffer) <=>
               (SubSeq(Float64ToDecimalBuffer, 1, Len(IntPartAndDot)) # IntPartAndDot)]_vars
  /\ []SuccessViewInRange

\* Float64ToDecimal(-2.25, 6) returns the precision error code on a buffer
\* that held "9.875000": it holds "-2." and the earlier bytes "75000"
C22_Witness ==
  /\ last.op = "Float64ToDecimal"
  /\ last.value = [sign |-> 1, exp |-> 1024, frac |-> <<2, 0, 0, 0>>]
  /\ last.err = ErrorCodeBuffersTooMuchPrecisionDigitsForFloat64
  /\ last.view = NoView
  /\ Float64ToDecimalBuffer = <<45, 50, 46, 55, 53, 48, 48, 48>>

(***************************************************************************)
(* Concurrent hex calls.  Each caller in Procs makes one call of a hex     *)
(* encoder.  The encoders write the package-level UintToHexBuffer with no  *)
(* lock, so the calls race on it; a byte store is indivisible, and every   *)
(* iteration of `for c := range UintToHexBuffer` that stores a glyph is    *)
(* one step.  The iterations with index -1 touch nothing shared and are    *)
(* part of the return step, in which the caller reads the returned slice.  *)
(***************************************************************************)
\* Uint32ToHex(0xDEADBEEF), Uint32ToHex(0x00000100), Uint16ToHex(0x1234)
ConcHexCalls ==
  {[op |-> "Uint32ToHex", size |-> 32, value |-> <<57005, 48879>>],
   [op |-> "Uint32ToHex", size |-> 32, value |-> <<0, 256>>],
   [op |-> "Uint16ToHex", size |-> 16, value |-> <<4660>>]}

\* caller p enters a hex encoder
HexCallStart(p) ==
  /\ procs[p].pc = "idle"
  /\ \E c \in ConcHexCalls :
       procs' = [q \in Procs |->
                  IF q = p
                  THEN [IdleProc EXCEPT !.pc = "hex", !.op = c.op, !.n = c.size, !.value = c.value,
                                        !.overlap = \E r \in Procs \ {p} : procs[r].pc = "hex"]
                  ELSE IF procs[q].pc = "hex" THEN [procs[q] EXCEPT !.overlap = TRUE]
                  ELSE procs[q]]
  /\ UNCHANGED <<UintToHexBuffer, UintToDecimalBuffer, IntToDecimalBuffer, Float64ToDecimalBuffer,
                 buffer, enc, last, held>>

\* a variant that leaves the loop one glyph early
HexCallStep_SkipsLast(p) ==
  LET me    == procs[p]
      index == UintToHexIndex(Uint64Of(me.value), me.n, me.k)
  IN  /\ me.pc = "hex"
      /\ index >= 0
      /\ UintToHexBuffer' =
           IF me.k + 1 < me.n \div 4
           THEN [UintToHexBuffer EXCEPT ![me.k + 1] = ASCIIHexDigits[index + 1]]
           ELSE UintToHexBuffer
      /\ procs' = [procs EXCEPT ![p] = [me EXCEPT !.k = me.k + 1]]
      /\ UNCHANGED <<UintToDecimalBuffer, IntToDecimalBuffer, Float64ToDecimalBuffer,
                     buffer, enc, last, held>>

\* iteration c = k of the loop of caller p, when it stores a glyph:
\* UintToHexBuffer[c] = ASCIIHexDigits[index]
HexCallStep(p) ==
  LET me    == procs[p]
      index == UintToHexIndex(Uint64Of(me.value), me.n, me.k)
  IN  /\ me.pc = "hex"
      /\ index >= 0
      /\ UintToHexBuffer' = [UintToHexBuffer EXCEPT ![me.k + 1] = ASCIIHexDigits[index + 1]]
      /\ procs' = [procs EXCEPT ![p] = [me EXCEPT !.k = me.k + 1]]
      /\ UNCHANGED <<UintToDecimalBuffer, IntToDecimalBuffer, Float64ToDecimalBuffer,
                     buffer, enc, last, held>>

\* the remaining iterations of caller p have index -1; the call returns
\* UintToHexBuffer[:size/4] and the caller reads it into buf
HexCallReturn(p) ==
  LET me == procs[p]
  IN  /\ me.pc = "hex"
      /\ UintToHexIndex(Uint64Of(me.value), me.n, me.k) < 0
      /\ procs' = [procs EXCEPT ![p] =
                     [me EXCEPT !.pc = "done", !.buf = ViewBytes(HexView(me.n))]]
      /\ UNCHANGED <<UintToHexBuffer, UintToDecimalBuffer, IntToDecimalBuffer,
                     Float64ToDecimalBuffer, buffer, enc, last, held>>

NextHexConc == \E p \in Procs : HexCallStart(p) \/ HexCallStep(p) \/ HexCallReturn(p)

SpecHexConc == Init /\ [][NextHexConc]_vars

\* the text of a hex call when it runs alone
HexTextOf(call) ==
  SubSeq(UintToHexLoop(ZeroBytes(UintToHexBufferLen), Uint64Of(call.value), call.n, 0),
         1, call.n \div 4)

\* caller p has returned with bytes that are not the encoding of its value
ReadsForeignText(p) == procs[p].pc = "done" /\ procs[p].buf # HexTextOf(procs[p])

\* every byte caller p read is the glyph of its own value at that position
\* or the glyph of another caller's value at that position
ReadsMixOfGlyphs(p) ==
  \A j \in 1..Len(procs[p].buf) :
    \/ procs[p].buf[j] = HexTextOf(procs[p])[j]
    \/ \E q \in Procs \ {p} :
         /\ procs[q].pc # "idle"
         /\ j <= procs[q].n \div 4
         /\ procs[p].buf[j] = HexTextOf(procs[q])[j]

\* C23: the hex encoders are not safe under concurrent use.  A call whose
\* execution overlapped no other call returns the encoding of its value
\* (so, called strictly one after the other, no call returns anything
\* else); a call that overlapped another one may return other bytes, and
\* then they are a mix of the glyphs of the two values.  That such a
\* state, with bytes equal to neither encoding, is reached is C23_Witness.
C23_HexCallsRace ==
  \A p \in Procs :
    /\ (procs[p].pc = "done" /\ ~procs[p].overlap) => procs[p].buf = HexTextOf(procs[p])
    /\ ReadsForeignText(p) => (procs[p].overlap /\ ReadsMixOfGlyphs(p))

\* Uint32ToHex(0xDEADBEEF) of caller 1 ran together with
\* Uint32ToHex(0x00000100) of caller 2 and returned "DEAD0100", which is
\* neither "DEADBEEF" nor "00000100"
C23_Witness ==
  /\ procs[1].pc = "done"
  /\ procs[1].op = "Uint32ToHex"
  /\ procs[1].value = <<57005, 48879>>
  /\ procs[2].op = "Uint32ToHex"
  /\ procs[2].value = <<0, 256>>
  /\ procs[1].buf = <<68, 69, 65, 68, 48, 49, 48, 48>>
  /\ procs[1].buf # HexTextOf(procs[1])
  /\ procs[1].buf # HexTextOf(procs[2])
====
